---- MODULE Spec2Model ----
(***************************************************************************)
(* Content Delivery & Edge Policy Layer of the news front end:             *)
(*   - Configuration Gate   (lib/env-validation.ts, scripts/validate-env.js)*)
(*   - Content Gateway      (lib/graphql.ts, lib/api.ts)                   *)
(*   - Security Policy / Edge Request Interceptor (lib/security.ts,        *)
(*     middleware.ts)                                                      *)
(*   - Cache Policy Engine  (lib/cacheHeaders.ts)                          *)
(* A JavaScript string is a sequence of one-character strings, so that the *)
(* predicates of the code (trim, length, regular expressions, URL parsing) *)
(* are computed on the characters.  A value that may be undefined is an    *)
(* option: <<>> is undefined, <<s>> is the string s.                       *)
(***************************************************************************)
EXTENDS Integers, Sequences, FiniteSets, TLC

VARIABLES
    env,        \* process.env: variable name -> option of string
    vop,        \* Configuration Gate: the validation entry point last applied
    vres,       \* Configuration Gate: what that entry point returned or threw
    op,         \* Content Gateway: the operation in flight ("idle" when none)
    args,       \* its arguments
    pc,         \* its position: "idle", "awaiting" (request sent), "done"
    acc,        \* cursor walk: slugs / posts accumulated so far
    hasNextPage,\* cursor walk: loop variable
    after,      \* cursor walk: loop variable (option of cursor)
    reqLog,     \* the `after` of every request issued by the call, in order
    respLog,    \* the response to each of them, in order
    upstream,   \* the CMS's pages revealed so far: cursor option -> page
    result,     \* what the operation returned to its caller
    nodeEnv,    \* process.env.NODE_ENV
    hasWindow,  \* typeof window !== 'undefined' in the evaluating bundle
    layoutMod,  \* RootLayout module: "unloaded", "loaded", "threw"
    graphqlMod, \* lib/graphql module: "unloaded", "loaded", "threw"
    graphqlClient, \* the exported client: option of [endpoint |-> string]
    validateCalls, \* number of validateEnvVarsOrThrow invocations so far
    forwarded,  \* number of requests the middleware has forwarded
    gatewayCalls, \* number of Content Gateway operations started by handlers
    clientInits,  \* number of initializeGraphQLClient invocations so far
    usedClients,  \* the clients the gateway operations so far have called
    mpc,        \* middleware: "idle", "received", "headers-attached", "forwarded"
    request,    \* middleware: the inbound request [path, method]
    response,   \* middleware: the headers of the pass-through response
    pfn,        \* policy engines: the function last applied ("none" at start)
    pin,        \* its arguments
    pout,       \* what it returned or threw
    calls,      \* concurrent gateway calls: call id -> the locals of the call
    cms         \* the upstream they share: request -> its response

envVars  == <<env, vop, vres>>
gwVars   == <<op, args, pc, acc, hasNextPage, after, reqLog, respLog, upstream, result>>
procVars == <<nodeEnv, hasWindow, layoutMod, graphqlMod, graphqlClient,
              validateCalls, forwarded, gatewayCalls, clientInits, usedClients>>
edgeVars == <<mpc, request, response>>
polVars  == <<pfn, pin, pout>>
concVars == <<calls, cms>>
vars     == <<envVars, gwVars, procVars, edgeVars, polVars, concVars>>

----------------------------------------------------------------------------
(* Strings *)

None == <<>>
Some(s) == <<s>>

LowerSeq == <<"a","b","c","d","e","f","g","h","i","j","k","l","m",
              "n","o","p","q","r","s","t","u","v","w","x","y","z">>
UpperSeq == <<"A","B","C","D","E","F","G","H","I","J","K","L","M",
              "N","O","P","Q","R","S","T","U","V","W","X","Y","Z">>
Lower == {LowerSeq[i] : i \in 1..Len(LowerSeq)}
Upper == {UpperSeq[i] : i \in 1..Len(UpperSeq)}
Digit == {"0","1","2","3","4","5","6","7","8","9"}
Alpha == Lower \cup Upper
Whitespace == {" ", "\t", "\n"}

SetMin(S) == CHOOSE x \in S : \A y \in S : x <= y
SetMax(S) == CHOOSE x \in S : \A y \in S : x >= y

\* String.prototype.toLowerCase
toLowerCase(s) ==
    [i \in 1..Len(s) |->
        IF s[i] \in Upper
        THEN LowerSeq[CHOOSE k \in 1..Len(UpperSeq) : UpperSeq[k] = s[i]]
        ELSE s[i]]

\* String.prototype.trim
trim(s) ==
    LET keep == {i \in 1..Len(s) : s[i] \notin Whitespace}
    IN  IF keep = {} THEN <<>> ELSE SubSeq(s, SetMin(keep), SetMax(keep))

\* String.prototype.startsWith / endsWith
startsWith(s, p) == Len(s) >= Len(p) /\ SubSeq(s, 1, Len(p)) = p
endsWith(s, p) == Len(s) >= Len(p) /\ SubSeq(s, Len(s) - Len(p) + 1, Len(s)) = p

\* index of the first character of s that is in the set cs (0 when none)
IndexOfAny(s, cs) ==
    LET hit == {i \in 1..Len(s) : s[i] \in cs}
    IN  IF hit = {} THEN 0 ELSE SetMin(hit)

\* s after position i
Tail_(s, i) == SubSeq(s, i + 1, Len(s))

\* JavaScript truthiness of an optional string: undefined and '' are falsy
Truthy(v) == v # None /\ v[1] # <<>>

----------------------------------------------------------------------------
(* new URL(value): the WHATWG parser without a base, as far as the scheme   *)
(* and the host: leading and trailing spaces are stripped, a scheme         *)
(* [A-Za-z][A-Za-z0-9+.-]* and a ':' are required, a special scheme         *)
(* (http, https, ws, wss, ftp) needs a non-empty host, the host is          *)
(* lower-cased and an IPv6 literal keeps its brackets.                      *)

SpecialSchemes == { <<"h","t","t","p">>, <<"h","t","t","p","s">>,
                    <<"w","s">>, <<"w","s","s">>, <<"f","t","p">> }
SchemeChars == Alpha \cup Digit \cup {"+", "-", "."}
HostForbidden == {" ", "<", ">", "^", "|", "%", "#", "?", "@", "\\"}

RECURSIVE StripSlashes(_)
StripSlashes(s) ==
    IF s # <<>> /\ s[1] \in {"/", "\\"} THEN StripSlashes(Tail(s)) ELSE s

HostOf(authority) ==
    IF authority # <<>> /\ authority[1] = "["
    THEN LET close == IndexOfAny(authority, {"]"})
         IN  IF close = 0 THEN <<>> ELSE SubSeq(authority, 1, close)
    ELSE LET colon == IndexOfAny(authority, {":"})
         IN  IF colon = 0 THEN authority ELSE SubSeq(authority, 1, colon - 1)

URL(value) ==
    LET t      == trim(value)
        colon  == IndexOfAny(t, {":"})
        scheme == toLowerCase(SubSeq(t, 1, colon - 1))
        rest   == Tail_(t, colon)
        special == scheme \in SpecialSchemes
        body   == IF special THEN StripSlashes(rest)
                  ELSE IF startsWith(rest, <<"/","/">>) THEN Tail_(rest, 2)
                  ELSE <<>>
        stop   == IndexOfAny(body, {"/", "\\", "?", "#"})
        authority == IF stop = 0 THEN body ELSE SubSeq(body, 1, stop - 1)
        host   == toLowerCase(HostOf(authority))
        bad    == \/ colon <= 1
                  \/ t[1] \notin Alpha
                  \/ \E i \in 1..(colon - 1) : t[i] \notin SchemeChars
                  \/ special /\ host = <<>>
                  \/ \E i \in 1..Len(host) : host[i] \in HostForbidden
    IN  IF bad
        THEN [ok |-> FALSE, protocol |-> <<>>, hostname |-> <<>>]
        ELSE [ok |-> TRUE, protocol |-> scheme \o <<":">>, hostname |-> host]

----------------------------------------------------------------------------
(* Configuration Gate: lib/env-validation.ts *)

\* keys of REQUIRED_ENV_VARS in insertion order (Object.entries order)
TsVarNames == <<"WPGRAPHQL_ENDPOINT", "REVALIDATE_SECRET", "SITE_URL", "SITE_TITLE",
                "SITE_DESCRIPTION", "SITE_NAME", "SITE_COPYRIGHT",
                "PUBLIC_GA_ID", "PUBLIC_GA_DEBUG">>

RequiredNames == {"WPGRAPHQL_ENDPOINT", "REVALIDATE_SECRET", "SITE_URL", "SITE_TITLE",
                  "SITE_DESCRIPTION", "SITE_NAME", "SITE_COPYRIGHT"}

errorMessageOf(name) ==
    CASE name = "WPGRAPHQL_ENDPOINT" -> "Must be a valid URL to WordPress GraphQL endpoint"
      [] name = "REVALIDATE_SECRET"  -> "Must be at least 8 characters long"
      [] name = "SITE_URL"           -> "Must be a valid URL"
      [] name \in {"SITE_TITLE", "SITE_DESCRIPTION", "SITE_NAME", "SITE_COPYRIGHT"}
                                     -> "Cannot be empty"
      [] name \in {"PUBLIC_GA_ID", "NEXT_PUBLIC_GA_MEASUREMENT_ID"}
                                     -> "Must be in format G-XXXXXXXXXX"
      [] name = "PUBLIC_GA_DEBUG"    -> "Must be \"true\" or \"false\""

\* /^G-[A-Z0-9]+$/.test(value)
GaIdPattern(s) ==
    /\ Len(s) >= 3
    /\ s[1] = "G"
    /\ s[2] = "-"
    /\ \A i \in 3..Len(s) : s[i] \in Upper \cup Digit

sTrue  == <<"t","r","u","e">>
sFalse == <<"f","a","l","s","e">>

\* REQUIRED_ENV_VARS[name].required
REQUIRED_ENV_VARS_required(name) == name \in RequiredNames

\* REQUIRED_ENV_VARS[name].validate(value), value a string
REQUIRED_ENV_VARS_validate(name, value) ==
    CASE name \in {"WPGRAPHQL_ENDPOINT", "SITE_URL"} -> URL(value).ok
      [] name = "REVALIDATE_SECRET" -> Len(value) >= 8
      [] name \in {"SITE_TITLE", "SITE_DESCRIPTION", "SITE_NAME", "SITE_COPYRIGHT"}
                                    -> Len(value) > 0
      [] name = "PUBLIC_GA_ID"      -> GaIdPattern(value)
      [] name = "PUBLIC_GA_DEBUG"   -> toLowerCase(value) \in {sTrue, sFalse}

EmptyResult == [isValid |-> TRUE, errors |-> <<>>, warnings |-> <<>>,
                missingVariables |-> <<>>]

\* validateEnvVarsStep with the missingVariables.push forgotten
validateEnvVarsStepNoMissing(vars_, varName, r) ==
    LET value == vars_[varName]
    IN  IF ~Truthy(value) \/ trim(value[1]) = <<>>
        THEN IF REQUIRED_ENV_VARS_required(varName)
             THEN [r EXCEPT
                     !.errors = Append(@, [variable |-> varName,
                         message |-> <<"Required environment variable missing", varName>>])]
             ELSE [r EXCEPT !.warnings = Append(@, varName)]
        ELSE IF ~REQUIRED_ENV_VARS_validate(varName, value[1])
             THEN [r EXCEPT
                     !.errors = Append(@, [variable |-> varName,
                         message |-> <<"Invalid value for", varName,
                                       errorMessageOf(varName)>>])]
             ELSE r

\* the body of the for loop of validateEnvVars for one variable
validateEnvVarsStep(vars_, varName, r) ==
    LET value == vars_[varName]
    IN  IF ~Truthy(value) \/ trim(value[1]) = <<>>
        THEN IF REQUIRED_ENV_VARS_required(varName)
             THEN [r EXCEPT
                     !.errors = Append(@, [variable |-> varName,
                         message |-> <<"Required environment variable missing", varName>>]),
                     !.missingVariables = Append(@, varName)]
             ELSE [r EXCEPT !.warnings = Append(@, varName)]
        ELSE IF ~REQUIRED_ENV_VARS_validate(varName, value[1])
             THEN [r EXCEPT
                     !.errors = Append(@, [variable |-> varName,
                         message |-> <<"Invalid value for", varName,
                                       errorMessageOf(varName)>>])]
             ELSE r

RECURSIVE validateEnvVarsLoop(_, _, _)
validateEnvVarsLoop(vars_, i, r) ==
    IF i > Len(TsVarNames) THEN r
    ELSE validateEnvVarsLoop(vars_, i + 1, validateEnvVarsStep(vars_, TsVarNames[i], r))

validateEnvVars(vars_) ==
    LET r == validateEnvVarsLoop(vars_, 1, EmptyResult)
    IN  [r EXCEPT !.isValid = (Len(r.errors) = 0)]

\* validateEnvVarsOrThrowMessage reporting the first error only
validateEnvVarsOrThrowMessageFirstOnly(r) ==
    IF r.errors = <<>> THEN <<>>
    ELSE << <<r.errors[1].variable>> \o r.errors[1].message >>

\* the lines of the thrown message that are computed from the result: one per error
validateEnvVarsOrThrowMessage(r) ==
    [i \in 1..Len(r.errors) |-> <<r.errors[i].variable>> \o r.errors[i].message]

\* validateEnvVarsOrThrow: throws Error(message) or returns after warning
validateEnvVarsOrThrow(vars_) ==
    LET r == validateEnvVars(vars_)
    IN  IF ~r.isValid
        THEN [threw |-> TRUE, message |-> validateEnvVarsOrThrowMessage(r), result |-> r]
        ELSE [threw |-> FALSE, message |-> <<>>, result |-> r]

----------------------------------------------------------------------------
(* Configuration Gate: scripts/validate-env.js and its deployed variant *)

JsVarNames == <<"WPGRAPHQL_ENDPOINT", "REVALIDATE_SECRET", "SITE_URL", "SITE_TITLE",
                "SITE_DESCRIPTION", "SITE_NAME", "SITE_COPYRIGHT",
                "NEXT_PUBLIC_GA_MEASUREMENT_ID", "PUBLIC_GA_DEBUG">>

\* REQUIRED_ENV_VARS[name].validate(value) of the script; value an option.
\* new URL(undefined) parses the text "undefined", which has no scheme.
JsValidate(name, value) ==
    CASE name \in {"WPGRAPHQL_ENDPOINT", "SITE_URL"} ->
              IF value = None THEN FALSE ELSE URL(value[1]).ok
      [] name = "REVALIDATE_SECRET" -> Truthy(value) /\ Len(value[1]) >= 8
      [] name \in {"SITE_TITLE", "SITE_DESCRIPTION", "SITE_NAME", "SITE_COPYRIGHT"}
                                    -> Truthy(value) /\ Len(value[1]) > 0
      [] name = "NEXT_PUBLIC_GA_MEASUREMENT_ID"
                                    -> ~Truthy(value) \/ GaIdPattern(value[1])
      [] name = "PUBLIC_GA_DEBUG"   -> ~Truthy(value) \/ value[1] \in {sTrue, sFalse}

JsValidateEnvVarsStep(vars_, varName, r) ==
    LET value == vars_[varName]
        required == varName \in RequiredNames
    IN  IF required /\ (value = None \/ value = Some(<<>>))
        THEN [r EXCEPT !.missingVariables = Append(@, varName)]
        ELSE IF ~required /\ ~Truthy(value)
        THEN r
        ELSE IF ~JsValidate(varName, value)
        THEN [r EXCEPT !.errors = Append(@, [variable |-> varName,
                                             message |-> <<errorMessageOf(varName)>>])]
        ELSE r

RECURSIVE JsValidateEnvVarsLoop(_, _, _)
JsValidateEnvVarsLoop(vars_, i, r) ==
    IF i > Len(JsVarNames) THEN r
    ELSE JsValidateEnvVarsLoop(vars_, i + 1,
                               JsValidateEnvVarsStep(vars_, JsVarNames[i], r))

JsValidateEnvVars(vars_) ==
    LET r == JsValidateEnvVarsLoop(vars_, 1, EmptyResult)
    IN  [r EXCEPT !.isValid = (Len(r.errors) = 0 /\ Len(r.missingVariables) = 0)]

\* scripts/validate-env.js: the lines naming a variable
JsOrThrowMessage(r) ==
    [i \in 1..Len(r.missingVariables) |-> <<r.missingVariables[i]>>]
    \o [i \in 1..Len(r.errors) |-> <<r.errors[i].variable>> \o r.errors[i].message]

JsValidateEnvVarsOrThrow(vars_) ==
    LET r == JsValidateEnvVars(vars_)
    IN  IF ~r.isValid
        THEN [threw |-> TRUE, message |-> JsOrThrowMessage(r), result |-> r]
        ELSE [threw |-> FALSE, message |-> <<>>, result |-> r]

\* the deployed variant: missing, then invalid, then every required name
Js2OrThrowMessage(r) ==
    [i \in 1..Len(r.missingVariables) |-> <<r.missingVariables[i]>>]
    \o [i \in 1..Len(r.errors) |-> <<r.errors[i].variable>> \o r.errors[i].message]
    \o [i \in 1..Len(SelectSeq(JsVarNames, LAMBDA n : n \in RequiredNames)) |->
            <<SelectSeq(JsVarNames, LAMBDA n : n \in RequiredNames)[i]>>]

Js2ValidateEnvVarsOrThrow(vars_) ==
    LET r == JsValidateEnvVars(vars_)
    IN  IF ~r.isValid
        THEN [threw |-> TRUE, message |-> Js2OrThrowMessage(r), result |-> r]
        ELSE [threw |-> FALSE, message |-> <<>>, result |-> r]

----------------------------------------------------------------------------
(* Environments *)

sHttps     == <<"h","t","t","p","s",":","/","/","c","m","s",".","i","o","/","g">>
sHttp      == <<"h","t","t","p",":","/","/","c","m","s",".","i","o","/","g">>
sLocalhost == <<"h","t","t","p","s",":","/","/","l","o","c","a","l","h","o","s","t",
                ":","8","0","/","g">>
sLoopback4 == <<"h","t","t","p","s",":","/","/","1","2","7",".","0",".","0",".","1","/","g">>
sLoopback6 == <<"h","t","t","p","s",":","/","/","[",":",":","1","]","/","g">>
sNotUrl    == <<"n","o","t","-","a","-","u","r","l">>
sBlank     == <<" ">>
sSecret8   == <<"1","2","3","4","5","6","7","8">>
sSecret7   == <<"1","2","3","4","5","6","7">>
sShort     == <<"s","h","o","r","t">>
sTitle     == <<"N","e","w","s">>
sGaId      == <<"G","-","A","1">>
sGaLower   == <<"g","-","a","1">>
sGaBare    == <<"G","-">>
sTRUE      == <<"T","R","U","E">>
sYes       == <<"y","e","s">>

EnvNames == {"WPGRAPHQL_ENDPOINT", "REVALIDATE_SECRET", "SITE_URL", "SITE_TITLE",
             "SITE_DESCRIPTION", "SITE_NAME", "SITE_COPYRIGHT",
             "PUBLIC_GA_ID", "NEXT_PUBLIC_GA_MEASUREMENT_ID", "PUBLIC_GA_DEBUG"}

\* the values a variable is given in the environments explored
ValuesOf(name) ==
    CASE name \in {"WPGRAPHQL_ENDPOINT", "SITE_URL"} ->
             {None, Some(<<>>), Some(sBlank), Some(sNotUrl), Some(sHttps)}
      [] name = "REVALIDATE_SECRET" ->
             {None, Some(<<>>), Some(sShort), Some(sSecret7), Some(sSecret8)}
      [] name \in {"SITE_TITLE", "SITE_DESCRIPTION", "SITE_NAME", "SITE_COPYRIGHT"} ->
             {None, Some(<<>>), Some(sBlank), Some(sTitle)}
      [] name \in {"PUBLIC_GA_ID", "NEXT_PUBLIC_GA_MEASUREMENT_ID"} ->
             {None, Some(<<>>), Some(sGaId), Some(sGaLower), Some(sGaBare)}
      [] name = "PUBLIC_GA_DEBUG" ->
             {None, Some(sTrue), Some(sFalse), Some(sTRUE), Some(sYes)}

\* a fully valid environment with the optional variables unset
BaseEnv ==
    [n \in EnvNames |->
        CASE n \in {"WPGRAPHQL_ENDPOINT", "SITE_URL"} -> Some(sHttps)
          [] n = "REVALIDATE_SECRET" -> Some(sSecret8)
          [] n \in {"SITE_TITLE", "SITE_DESCRIPTION", "SITE_NAME", "SITE_COPYRIGHT"}
                                     -> Some(sTitle)
          [] OTHER -> None]

\* the environments explored differ from BaseEnv in at most MaxDeviations variables
MaxDeviations == 2

RECURSIVE Deviate(_)
Deviate(k) ==
    IF k = 0 THEN {BaseEnv}
    ELSE LET prev == Deviate(k - 1)
         IN  prev \cup UNION { UNION { {[e EXCEPT ![n] = x] : x \in ValuesOf(n)}
                                       : n \in EnvNames }
                               : e \in prev }

EnvSet == Deviate(MaxDeviations)

----------------------------------------------------------------------------
(* Idle values of each component's state *)

NoOutcome == [threw |-> FALSE, message |-> <<>>, result |-> EmptyResult]

EnvIdle ==
    /\ vop = "none"
    /\ vres = NoOutcome

GwIdle ==
    /\ op = "idle"
    /\ args = [categoryId |-> <<>>, excludeId |-> <<>>, after |-> <<>>]
    /\ pc = "idle"
    /\ acc = <<>>
    /\ hasNextPage = FALSE
    /\ after = None
    /\ reqLog = <<>>
    /\ respLog = <<>>
    /\ upstream = <<>>
    /\ result = [t |-> "undefined", v |-> <<>>]

ProcIdle ==
    /\ nodeEnv = None
    /\ hasWindow = FALSE
    /\ layoutMod = "unloaded"
    /\ graphqlMod = "unloaded"
    /\ graphqlClient = None
    /\ validateCalls = 0
    /\ forwarded = 0
    /\ gatewayCalls = 0
    /\ clientInits = 0
    /\ usedClients = {}

EdgeIdle ==
    /\ mpc = "idle"
    /\ request = <<>>
    /\ response = <<>>

PolIdle ==
    /\ pfn = "none"
    /\ pin = <<>>
    /\ pout = [t |-> "undefined", v |-> <<>>]

ConcIdle ==
    /\ calls = <<>>
    /\ cms = <<>>

----------------------------------------------------------------------------
(* Specification of the Configuration Gate: an environment is drawn and    *)
(* the validation entry points are applied to it.                          *)

Returned(r) == [threw |-> FALSE, message |-> <<>>, result |-> r]

CallValidateEnvVars ==
    /\ vop' = "validateEnvVars"
    /\ vres' = Returned(validateEnvVars(env))
    /\ UNCHANGED <<env, gwVars, procVars, edgeVars, polVars, concVars>>

CallValidateEnvVarsOrThrow ==
    /\ vop' = "validateEnvVarsOrThrow"
    /\ vres' = validateEnvVarsOrThrow(env)
    /\ UNCHANGED <<env, gwVars, procVars, edgeVars, polVars, concVars>>

CallJsValidateEnvVars ==
    /\ vop' = "js.validateEnvVars"
    /\ vres' = Returned(JsValidateEnvVars(env))
    /\ UNCHANGED <<env, gwVars, procVars, edgeVars, polVars, concVars>>

CallJsValidateEnvVarsOrThrow ==
    /\ vop' = "js.validateEnvVarsOrThrow"
    /\ vres' = JsValidateEnvVarsOrThrow(env)
    /\ UNCHANGED <<env, gwVars, procVars, edgeVars, polVars, concVars>>

CallJs2ValidateEnvVarsOrThrow ==
    /\ vop' = "js2.validateEnvVarsOrThrow"
    /\ vres' = Js2ValidateEnvVarsOrThrow(env)
    /\ UNCHANGED <<env, gwVars, procVars, edgeVars, polVars, concVars>>

InitEnv ==
    /\ env \in EnvSet
    /\ EnvIdle /\ GwIdle /\ ProcIdle /\ EdgeIdle /\ PolIdle /\ ConcIdle

NextEnv ==
    \/ CallValidateEnvVars
    \/ CallValidateEnvVarsOrThrow
    \/ CallJsValidateEnvVars
    \/ CallJsValidateEnvVarsOrThrow
    \/ CallJs2ValidateEnvVarsOrThrow

SpecEnv == InitEnv /\ [][NextEnv]_vars

Range(s) == {s[i] : i \in 1..Len(s)}

\* the variables that have an entry in errors
ErrorVariables(r) == {r.errors[i].variable : i \in 1..Len(r.errors)}

\* the variables a thrown message names
NamedIn(message) == {message[i][1] : i \in 1..Len(message)}

AbsentOrEmpty(v) == v = None \/ v = Some(<<>>)

TsOps == {"validateEnvVars", "validateEnvVarsOrThrow"}
JsOps == {"js.validateEnvVars", "js.validateEnvVarsOrThrow", "js2.validateEnvVarsOrThrow"}
OrThrowOps == {"validateEnvVarsOrThrow", "js.validateEnvVarsOrThrow",
               "js2.validateEnvVarsOrThrow"}

\* C6: for every required entry and every environment in which its key is absent
\* or empty, the result of validate (either implementation) has the key in
\* missingVariables and isValid = FALSE.
C6_RequiredMissing ==
    vop # "none" =>
        \A n \in RequiredNames :
            AbsentOrEmpty(env[n]) =>
                /\ n \in Range(vres.result.missingVariables)
                /\ ~vres.result.isValid

C6_Witness ==
    /\ vop = "validateEnvVars"
    /\ env["SITE_NAME"] = None
    /\ env["REVALIDATE_SECRET"] = Some(<<>>)
    /\ {"SITE_NAME", "REVALIDATE_SECRET"} \subseteq Range(vres.result.missingVariables)

\* the code's notion of "not set": undefined, '' or only white space
Unset(v) == ~Truthy(v) \/ trim(v[1]) = <<>>

\* the variables validate is to report in errors: required and absent/empty, or
\* present with a failing validator (the validator of the implementation applied)
ExpectedErrorVariables ==
    LET names == IF vop \in TsOps THEN Range(TsVarNames) ELSE Range(JsVarNames)
        fails(n) == IF vop \in TsOps THEN ~REQUIRED_ENV_VARS_validate(n, env[n][1])
                    ELSE ~JsValidate(n, env[n])
    IN  {n \in names : \/ n \in RequiredNames /\ Unset(env[n])
                       \/ ~Unset(env[n]) /\ fails(n)}

\* C7: validate collects every failure: errors has an entry for each variable that
\* is required and absent/empty (which is also in missingVariables) and for each
\* present variable whose validator fails, and for no other variable.
C7_AllFailuresInErrors ==
    vop # "none" =>
        /\ ErrorVariables(vres.result) = ExpectedErrorVariables
        /\ \A n \in RequiredNames :
               AbsentOrEmpty(env[n]) => n \in Range(vres.result.missingVariables)

\* C8: validateOrThrow raises exactly when validate returns isValid = FALSE, the
\* message then names every variable of missingVariables and of errors, and it
\* returns normally when isValid is TRUE.
C8_ThrowsIffInvalid ==
    vop \in OrThrowOps =>
        LET r == IF vop \in TsOps THEN validateEnvVars(env) ELSE JsValidateEnvVars(env)
        IN  /\ vres.threw = ~r.isValid
            /\ vres.threw =>
                   Range(r.missingVariables) \cup ErrorVariables(r)
                       \subseteq NamedIn(vres.message)

C8_Witness ==
    /\ vop = "validateEnvVarsOrThrow"
    /\ vres.threw
    /\ env["SITE_NAME"] = None
    /\ env["REVALIDATE_SECRET"] = Some(sShort)
    /\ {"SITE_NAME", "REVALIDATE_SECRET"} \subseteq NamedIn(vres.message)

----------------------------------------------------------------------------
(* Identifier encodings: base64, String(n), parseInt *)

DigitSeq == <<"0","1","2","3","4","5","6","7","8","9">>
B64Seq == UpperSeq \o LowerSeq \o DigitSeq \o <<"+", "/">>
AsciiSeq == <<" ","!","\"","#","$","%","&","'","(",")","*","+",",","-",".","/">>
            \o DigitSeq \o <<":",";","<","=",">","?","@">> \o UpperSeq
            \o <<"[","\\","]","^","_","U+0060">> \o LowerSeq \o <<"{","|","}","~">>
\* (the grave accent, code 96, is written U+0060)
ReplacementChar == "U+FFFD"

IndexIn(seq, c) == CHOOSE k \in 1..Len(seq) : seq[k] = c
CharCode(c) == IndexIn(AsciiSeq, c) + 31
B64Value(c) == IndexIn(B64Seq, c) - 1
B64Char(v) == B64Seq[v + 1]

\* Buffer.from(text).toString('base64') for ASCII text
RECURSIVE B64EncodeBytes(_)
B64EncodeBytes(b) ==
    IF Len(b) = 0 THEN <<>>
    ELSE IF Len(b) = 1
    THEN <<B64Char(b[1] \div 4), B64Char((b[1] % 4) * 16), "=", "=">>
    ELSE IF Len(b) = 2
    THEN <<B64Char(b[1] \div 4), B64Char((b[1] % 4) * 16 + b[2] \div 16),
           B64Char((b[2] % 16) * 4), "=">>
    ELSE <<B64Char(b[1] \div 4), B64Char((b[1] % 4) * 16 + b[2] \div 16),
           B64Char((b[2] % 16) * 4 + b[3] \div 64), B64Char(b[3] % 64)>>
         \o B64EncodeBytes(SubSeq(b, 4, Len(b)))

btoa(text) == B64EncodeBytes([i \in 1..Len(text) |-> CharCode(text[i])])

RECURSIVE B64DecodeSextets(_)
B64DecodeSextets(v) ==
    IF Len(v) <= 1 THEN <<>>
    ELSE IF Len(v) = 2 THEN <<v[1] * 4 + v[2] \div 16>>
    ELSE IF Len(v) = 3
    THEN <<v[1] * 4 + v[2] \div 16, (v[2] % 16) * 16 + v[3] \div 4>>
    ELSE <<v[1] * 4 + v[2] \div 16, (v[2] % 16) * 16 + v[3] \div 4,
           (v[3] % 4) * 64 + v[4]>>
         \o B64DecodeSextets(SubSeq(v, 5, Len(v)))

\* Buffer.from(s, 'base64').toString(): never throws; decoding ends at the first
\* '=', characters outside the alphabet are skipped, and a byte that is no
\* printable ASCII character decodes to the replacement character
BufferFromBase64ToString(s) ==
    LET pad   == IndexOfAny(s, {"="})
        body  == IF pad = 0 THEN s ELSE SubSeq(s, 1, pad - 1)
        valid == SelectSeq(body, LAMBDA c : c \in Range(B64Seq))
        bytes == B64DecodeSextets([i \in 1..Len(valid) |-> B64Value(valid[i])])
    IN  [i \in 1..Len(bytes) |->
            IF bytes[i] >= 32 /\ bytes[i] <= 126 THEN AsciiSeq[bytes[i] - 31]
            ELSE ReplacementChar]

\* s.split(':')[1]: an option, undefined when s holds no ':'
SplitColonSecond(s) ==
    LET c1 == IndexOfAny(s, {":"})
        rest == Tail_(s, c1)
        c2 == IndexOfAny(rest, {":"})
    IN  IF c1 = 0 THEN None
        ELSE Some(IF c2 = 0 THEN rest ELSE SubSeq(rest, 1, c2 - 1))

RECURSIVE DigitsValue(_, _)
DigitsValue(s, accum) ==
    IF s = <<>> \/ s[1] \notin Digit THEN accum
    ELSE DigitsValue(Tail(s), accum * 10 + (IndexIn(DigitSeq, s[1]) - 1))

\* parseInt(s): an option of integer, None is NaN
parseInt(s) ==
    LET t == trim(s)
        neg == t # <<>> /\ t[1] = "-"
        u == IF t # <<>> /\ t[1] \in {"+", "-"} THEN Tail(t) ELSE t
    IN  IF u = <<>> \/ u[1] \notin Digit THEN None
        ELSE Some(IF neg THEN 0 - DigitsValue(u, 0) ELSE DigitsValue(u, 0))

RECURSIVE NatToString(_)
NatToString(n) ==
    IF n < 10 THEN <<DigitSeq[n + 1]>>
    ELSE NatToString(n \div 10) \o <<DigitSeq[(n % 10) + 1]>>

\* the two encodings the CMS uses for the id of the entity with database id n
OpaqueId(type, n) == btoa(type \o <<":">> \o NatToString(n))
NumericId(n) == NatToString(n)

sPost == <<"p","o","s","t">>
sTerm == <<"t","e","r","m">>
sGarbageId == <<"a","b","c">>
\* a database id whose digits, read as base64, hold the bytes D7 5D 3A D7
sColonBytesId == <<"1","1","0","6","1","2">>

\* lines 72-73 of getRelatedPosts:
\* parseInt(Buffer.from(id, 'base64').toString().split(':')[1] || id)
decodeId(id) ==
    LET part == SplitColonSecond(BufferFromBase64ToString(id))
    IN  parseInt(IF Truthy(part) THEN part[1] ELSE id)

----------------------------------------------------------------------------
(* Content Gateway: lib/api.ts *)

\* JavaScript values crossing the gateway boundary
Undefined == [t |-> "undefined", v |-> <<>>]
Null      == [t |-> "null", v |-> <<>>]
Arr(s)    == [t |-> "array", v |-> s]
Obj(r)    == [t |-> "object", v |-> r]
Exception == [t |-> "exception", v |-> <<>>]   \* an exception reaching the caller

EntityOps == {"getPostBySlug", "getPostsByCategory", "getAuthor", "getTag"}
NodesOps  == {"getCategories", "searchPosts"}
SlugsOps  == {"getAllCategoriesSlugs", "getAllAuthorsSlugs", "getAllTagsSlugs"}
WalkOps   == {"getAllPostsSlugs", "getAllPostsWithDates"}
GatewayOps == EntityOps \cup NodesOps \cup SlugsOps \cup WalkOps
              \cup {"getPosts", "getRelatedPosts"}

\* bounds of the explored calls
MaxPost     == 2   \* database ids of the posts the CMS holds: 1..MaxPost
NumCursors  == 2   \* distinct non-null cursors the CMS hands out
MaxPageLen  == 2   \* nodes on one page of a cursor walk
MaxRequests == 4   \* requests one call may issue before exploration stops

Cursor(i) == <<"c">> \o NatToString(i)
CursorOptions == {None} \cup {Some(Cursor(i)) : i \in 1..NumCursors}

\* a post as the CMS returns it; enc is the encoding of its id
Post(n, enc) ==
    [id |-> IF enc = "opaque" THEN OpaqueId(sPost, n) ELSE NumericId(n),
     databaseId |-> n,
     slug |-> <<"p">> \o NatToString(n)]

Encodings == {"opaque", "numeric"}

NodeLists ==
    UNION { {<<>>} \cup {<<Post(i, e)>> : i \in 1..MaxPost}
            \cup {<<Post(i, e), Post(j, e)>> : i, j \in 1..MaxPost}
            : e \in Encodings }

PageInfos == [hasNextPage : BOOLEAN, endCursor : CursorOptions]

\* the j-th node of the page served for cursor option c
WalkNode(c, j) ==
    [slug |-> (IF c = None THEN <<"0">> ELSE c[1]) \o <<"-">> \o NatToString(j)]

WalkPages(c) ==
    {Obj([nodes |-> [j \in 1..len |-> WalkNode(c, j)], pageInfo |-> pi])
        : len \in 0..MaxPageLen, pi \in PageInfos}

\* the values the top-level field of a successful response may hold
FieldChoices(o) ==
    CASE o \in EntityOps -> {Undefined, Null, Obj(Post(1, "opaque"))}
      [] o = "getPosts"  -> {Undefined, Null}
                            \cup {Obj([nodes |-> ns, pageInfo |-> pi])
                                    : ns \in {<<>>, <<Post(1, "opaque")>>}, pi \in PageInfos}
      [] o \in NodesOps \cup SlugsOps \cup {"getRelatedPosts"}
                         -> {Undefined, Null} \cup {Obj([nodes |-> ns]) : ns \in NodeLists}
      [] o \in WalkOps   -> {Undefined}

IdChoices(type) ==
    {OpaqueId(type, n) : n \in 1..MaxPost} \cup {NumericId(n) : n \in 1..MaxPost}
    \cup {sGarbageId, sColonBytesId}

NoArgs == [categoryId |-> <<>>, excludeId |-> <<>>, after |-> None]

ArgChoices(o) ==
    CASE o = "getRelatedPosts" ->
             {[categoryId |-> c, excludeId |-> x, after |-> None]
                 : c \in IdChoices(sTerm), x \in IdChoices(sPost)}
      [] o \in {"getPosts", "getPostsByCategory"} ->
             {[NoArgs EXCEPT !.after = a] : a \in CursorOptions}
      [] OTHER -> {NoArgs}

\* the variables of graphqlClient.request(QUERY, variables)
RequestOf(o, a, aft) ==
    [query |-> o,
     after |-> IF o \in WalkOps THEN aft ELSE a.after,
     categoryId |-> IF o = "getRelatedPosts" THEN decodeId(a.categoryId) ELSE None,
     excludeId |-> IF o = "getRelatedPosts" THEN decodeId(a.excludeId) ELSE None]

\* CatchValue with getPosts answering null like the single-entity lookups
CatchValueNullPage(o) ==
    CASE o \in EntityOps \cup {"getPosts"} -> Null
      [] OTHER -> Arr(<<>>)

\* the value each catch block returns
CatchValue(o) ==
    CASE o = "getPosts" ->
             Obj([nodes |-> <<>>, pageInfo |-> [hasNextPage |-> FALSE, endCursor |-> None]])
      [] o \in EntityOps -> Null
      [] OTHER -> Arr(<<>>)

Slugs(nodes) == [i \in 1..Len(nodes) |-> nodes[i].slug]

\* the try block of a single-request operation after the response arrived:
\* reading .nodes of undefined or null throws a TypeError
TryBody(o, a, field) ==
    CASE o \in EntityOps \cup {"getPosts"} -> [threw |-> FALSE, value |-> field]
      [] o \in NodesOps ->
             IF field.t = "object" THEN [threw |-> FALSE, value |-> Arr(field.v.nodes)]
             ELSE [threw |-> TRUE, value |-> Undefined]
      [] o \in SlugsOps ->
             IF field.t = "object" THEN [threw |-> FALSE, value |-> Arr(Slugs(field.v.nodes))]
             ELSE [threw |-> TRUE, value |-> Undefined]
      [] o = "getRelatedPosts" ->
             IF field.t = "object"
             THEN [threw |-> FALSE,
                   value |-> Arr(SelectSeq(field.v.nodes,
                                           LAMBDA post : post.id # a.excludeId))]
             ELSE [threw |-> TRUE, value |-> Undefined]

\* try { ... } catch { return CatchValue }
Completion(o, body) == IF body.threw THEN CatchValue(o) ELSE body.value

\* walkLoopBody with the assignment to `after` forgotten
walkLoopBodyStaleCursor(o, accum, field) ==
    IF field.t # "object"
    THEN [threw |-> TRUE, acc |-> accum, hasNextPage |-> FALSE, after |-> None]
    ELSE [threw |-> FALSE,
          acc |-> accum \o (IF o = "getAllPostsSlugs" THEN Slugs(field.v.nodes)
                            ELSE field.v.nodes),
          hasNextPage |-> field.v.pageInfo.hasNextPage,
          after |-> None]

\* walkLoopBody with hasNextPage left TRUE whatever the page says
walkLoopBodyNeverStops(o, accum, field) ==
    IF field.t # "object"
    THEN [threw |-> TRUE, acc |-> accum, hasNextPage |-> FALSE, after |-> None]
    ELSE [threw |-> FALSE,
          acc |-> accum \o (IF o = "getAllPostsSlugs" THEN Slugs(field.v.nodes)
                            ELSE field.v.nodes),
          hasNextPage |-> TRUE,
          after |-> field.v.pageInfo.endCursor]

\* one iteration of the while loop of a cursor walk, after the response arrived
walkLoopBody(o, accum, field) ==
    IF field.t # "object"
    THEN [threw |-> TRUE, acc |-> accum, hasNextPage |-> FALSE, after |-> None]
    ELSE [threw |-> FALSE,
          acc |-> accum \o (IF o = "getAllPostsSlugs" THEN Slugs(field.v.nodes)
                            ELSE field.v.nodes),
          hasNextPage |-> field.v.pageInfo.hasNextPage,
          after |-> field.v.pageInfo.endCursor]

\* a caller invokes operation o: the function runs up to its first await
Call(o, a) ==
    /\ pc = "idle"
    /\ op' = o
    /\ args' = a
    /\ pc' = "awaiting"
    /\ acc' = <<>>
    /\ hasNextPage' = (o \in WalkOps)
    /\ after' = None
    /\ reqLog' = <<RequestOf(o, a, None)>>
    /\ respLog' = <<>>
    /\ upstream' = <<>>
    /\ result' = Undefined
    /\ UNCHANGED <<envVars, procVars, edgeVars, polVars, concVars>>

\* RequestFails with a cursor walk returning what it accumulated so far
RequestFailsKeepsAccumulated ==
    /\ pc = "awaiting"
    /\ respLog' = Append(respLog, [ok |-> FALSE, field |-> Undefined])
    /\ result' = IF op \in WalkOps THEN Arr(acc) ELSE CatchValue(op)
    /\ pc' = "done"
    /\ UNCHANGED <<op, args, acc, hasNextPage, after, reqLog, upstream>>
    /\ UNCHANGED <<envVars, procVars, edgeVars, polVars, concVars>>

\* the outbound call fails (transport error, GraphQL error): the catch block runs
RequestFails ==
    /\ pc = "awaiting"
    /\ respLog' = Append(respLog, [ok |-> FALSE, field |-> Undefined])
    /\ result' = CatchValue(op)
    /\ pc' = "done"
    /\ UNCHANGED <<op, args, acc, hasNextPage, after, reqLog, upstream>>
    /\ UNCHANGED <<envVars, procVars, edgeVars, polVars, concVars>>

\* a single-request operation receives its response
RequestSucceeds ==
    /\ pc = "awaiting"
    /\ op \notin WalkOps
    /\ \E field \in FieldChoices(op) :
          /\ respLog' = Append(respLog, [ok |-> TRUE, field |-> field])
          /\ result' = Completion(op, TryBody(op, args, field))
    /\ pc' = "done"
    /\ UNCHANGED <<op, args, acc, hasNextPage, after, reqLog, upstream>>
    /\ UNCHANGED <<envVars, procVars, edgeVars, polVars, concVars>>

\* a cursor walk receives a page: the CMS serves the same page for the same cursor
WalkReceives ==
    /\ pc = "awaiting"
    /\ op \in WalkOps
    /\ \E field \in (IF after \in DOMAIN upstream THEN {upstream[after]}
                     ELSE FieldChoices(op) \cup WalkPages(after)) :
          LET s == walkLoopBody(op, acc, field)
          IN  /\ upstream' = [c \in DOMAIN upstream \cup {after} |->
                                 IF c = after THEN field ELSE upstream[c]]
              /\ respLog' = Append(respLog, [ok |-> TRUE, field |-> field])
              /\ acc' = s.acc
              /\ hasNextPage' = s.hasNextPage
              /\ after' = s.after
              /\ IF s.threw
                 THEN /\ result' = CatchValue(op)
                      /\ pc' = "done"
                      /\ UNCHANGED reqLog
                 ELSE IF s.hasNextPage
                 THEN /\ Len(reqLog) < MaxRequests
                      /\ reqLog' = Append(reqLog, RequestOf(op, args, s.after))
                      /\ pc' = "awaiting"
                      /\ UNCHANGED result
                 ELSE /\ result' = Arr(s.acc)
                      /\ pc' = "done"
                      /\ UNCHANGED reqLog
    /\ UNCHANGED <<op, args>>
    /\ UNCHANGED <<envVars, procVars, edgeVars, polVars, concVars>>

\* the caller has the result; the next call starts afresh
Return ==
    /\ pc = "done"
    /\ op' = "idle"
    /\ args' = NoArgs
    /\ pc' = "idle"
    /\ acc' = <<>>
    /\ hasNextPage' = FALSE
    /\ after' = None
    /\ reqLog' = <<>>
    /\ respLog' = <<>>
    /\ upstream' = <<>>
    /\ result' = Undefined
    /\ UNCHANGED <<envVars, procVars, edgeVars, polVars, concVars>>

InitGateway ==
    /\ env = BaseEnv
    /\ EnvIdle /\ GwIdle /\ ProcIdle /\ EdgeIdle /\ PolIdle /\ ConcIdle

NextGateway ==
    \/ \E o \in GatewayOps : \E a \in ArgChoices(o) : Call(o, a)
    \/ RequestFails
    \/ RequestSucceeds
    \/ WalkReceives
    \/ Return

SpecGateway == InitGateway /\ [][NextGateway]_vars

\* the responses of the call so far that were pages of a cursor walk
IsPage(r) == r.ok /\ r.field.t = "object"

\* C1: in a cursor walk, a page with hasNextPage = TRUE and endCursor = null ends
\* the walk: no further request is issued after it.
C1_NullCursorEndsWalk ==
    op \in WalkOps =>
        \A i \in 1..Len(respLog) :
            ( /\ IsPage(respLog[i])
              /\ respLog[i].field.v.pageInfo.hasNextPage
              /\ respLog[i].field.v.pageInfo.endCursor = None )
            => Len(reqLog) <= i

\* the safe empty value the contract gives each operation
SafeEmpty(o) ==
    IF o \in {"getPostBySlug", "getAuthor", "getTag", "getPostsByCategory"} THEN Null
    ELSE IF o = "getPosts"
    THEN Obj([nodes |-> <<>>, pageInfo |-> [hasNextPage |-> FALSE, endCursor |-> None]])
    ELSE Arr(<<>>)

\* C2: when the outbound call of an operation fails, the operation returns its
\* safe empty value and no exception reaches the caller.
C2_FailureContained ==
    (pc = "done" /\ ~respLog[Len(respLog)].ok) =>
        /\ result = SafeEmpty(op)
        /\ result.t # "exception"

C2_Witness ==
    /\ pc = "done"
    /\ op = "getAllPostsWithDates"
    /\ Len(respLog) = 3
    /\ ~respLog[3].ok
    /\ acc # <<>>
    /\ result = Arr(<<>>)

\* the posts an identifier denotes, in either encoding
PostsIdentifiedBy(id) ==
    {n \in 1..MaxPost : id = OpaqueId(sPost, n) \/ id = NumericId(n)}

\* C3: getRelatedPosts never returns the post identified by excludeId, whatever
\* the encodings of excludeId and of the ids of the returned posts.
C3_ExcludedNeverReturned ==
    (pc = "done" /\ op = "getRelatedPosts" /\ result.t = "array") =>
        \A i \in 1..Len(result.v) :
            result.v[i].databaseId \notin PostsIdentifiedBy(args.excludeId)

\* every revealed page that announces a next page names it by a non-null cursor,
\* and no two pages name the same one
CorrectCursors ==
    LET more == {c \in DOMAIN upstream :
                    upstream[c].t = "object" /\ upstream[c].v.pageInfo.hasNextPage}
    IN  /\ \A c \in more : upstream[c].v.pageInfo.endCursor # None
        /\ \A c, d \in more :
               upstream[c].v.pageInfo.endCursor = upstream[d].v.pageInfo.endCursor
                   => c = d

\* the slugs of the pages the CMS serves from cursor option c on, in its order
RECURSIVE SlugsFrom(_, _)
SlugsFrom(c, fuel) ==
    IF fuel = 0 \/ c \notin DOMAIN upstream \/ upstream[c].t # "object" THEN <<>>
    ELSE Slugs(upstream[c].v.nodes)
         \o (IF upstream[c].v.pageInfo.hasNextPage
             THEN SlugsFrom(upstream[c].v.pageInfo.endCursor, fuel - 1)
             ELSE <<>>)

\* C4: against pages with correct cursors and no failing request, getAllPostsSlugs
\* asks for each cursor at most once and returns the concatenation of the pages'
\* slugs in upstream order.
C4_WalkReturnsAllSlugs ==
    ( /\ op = "getAllPostsSlugs"
      /\ CorrectCursors
      /\ \A i \in 1..Len(respLog) : IsPage(respLog[i]) )
    => /\ \A i, j \in 1..Len(reqLog) : reqLog[i].after = reqLog[j].after => i = j
       /\ pc = "done" => result = Arr(SlugsFrom(None, NumCursors + 1))

C4_Witness ==
    /\ op = "getAllPostsSlugs"
    /\ pc = "done"
    /\ CorrectCursors
    /\ Len(reqLog) = 3
    /\ \A i \in 1..Len(respLog) : IsPage(respLog[i]) /\ respLog[i].field.v.nodes # <<>>
    /\ Len(result.v) >= 4

----------------------------------------------------------------------------
(* Process start-up: module evaluation and request handling *)

sProduction  == <<"p","r","o","d","u","c","t","i","o","n">>
sProd        == <<"p","r","o","d">>
sDevelopment == <<"d","e","v","e","l","o","p","m","e","n","t">>
sHostLocalhost == <<"l","o","c","a","l","h","o","s","t">>
sHost127       == <<"1","2","7",".","0",".","0",".","1">>
sProtoHttps    == <<"h","t","t","p","s",":">>
sPlaceholder   == <<"h","t","t","p","s",":","/","/","p","l","a","c","e","h","o","l","d","e","r",
                    ".","l","o","c","a","l","/","g","r","a","p","h","q","l">>

\* isProduction() of lib/env-validation.ts
isProduction == nodeEnv = Some(sProduction) \/ nodeEnv = Some(sProd)

\* validateApiEndpoint of lib/security.ts
validateApiEndpoint(endpoint, isProd) ==
    LET url == URL(endpoint)
    IN  IF ~url.ok THEN FALSE
        ELSE IF isProd /\ url.protocol # sProtoHttps THEN FALSE
        ELSE IF isProd /\ (url.hostname = sHostLocalhost \/ url.hostname = sHost127)
        THEN FALSE
        ELSE TRUE

\* initializeGraphQLClient of lib/graphql.ts: throws, or returns a client
initializeGraphQLClient ==
    LET endpoint == env["WPGRAPHQL_ENDPOINT"]
    IN  IF hasWindow
        THEN [threw |-> FALSE, client |-> Some([endpoint |-> sPlaceholder])]
        ELSE IF ~Truthy(endpoint) \/ trim(endpoint[1]) = <<>>
        THEN [threw |-> TRUE, client |-> None]
        ELSE IF ~validateApiEndpoint(endpoint[1], isProduction)
        THEN [threw |-> TRUE, client |-> None]
        ELSE [threw |-> FALSE, client |-> Some([endpoint |-> endpoint[1]])]

\* requests handled before exploration stops
MaxHandled == 2

\* the edge middleware forwards an inbound request; it imports lib/security only
MiddlewareForwards ==
    /\ ~hasWindow
    /\ forwarded < MaxHandled
    /\ forwarded' = forwarded + 1
    /\ UNCHANGED <<nodeEnv, hasWindow, layoutMod, graphqlMod, graphqlClient,
                   validateCalls, gatewayCalls, clientInits, usedClients>>
    /\ UNCHANGED <<envVars, gwVars, edgeVars, polVars, concVars>>

\* the RootLayout module is evaluated: its module scope validates on the server
LoadRootLayout ==
    /\ layoutMod = "unloaded"
    /\ ~hasWindow
    /\ validateCalls' = validateCalls + 1
    /\ layoutMod' = IF validateEnvVarsOrThrow(env).threw THEN "threw" ELSE "loaded"
    /\ UNCHANGED <<nodeEnv, hasWindow, graphqlMod, graphqlClient, forwarded, gatewayCalls,
                   clientInits, usedClients>>
    /\ UNCHANGED <<envVars, gwVars, edgeVars, polVars, concVars>>

\* LoadGraphqlModule with the module evaluated again on a later import
LoadGraphqlModuleAgain ==
    /\ clientInits < MaxHandled
    /\ clientInits' = clientInits + 1
    /\ graphqlMod' = IF initializeGraphQLClient.threw THEN "threw" ELSE "loaded"
    /\ graphqlClient' = initializeGraphQLClient.client
    /\ UNCHANGED <<nodeEnv, hasWindow, layoutMod, validateCalls, forwarded, gatewayCalls,
                   usedClients>>
    /\ UNCHANGED <<envVars, gwVars, edgeVars, polVars, concVars>>

\* lib/graphql is evaluated (first import of lib/api): the client is initialized.
\* A module is evaluated once; a failed evaluation is recorded, not repeated.
LoadGraphqlModule ==
    /\ graphqlMod = "unloaded"
    /\ clientInits' = clientInits + 1
    /\ graphqlMod' = IF initializeGraphQLClient.threw THEN "threw" ELSE "loaded"
    /\ graphqlClient' = initializeGraphQLClient.client
    /\ UNCHANGED <<nodeEnv, hasWindow, layoutMod, validateCalls, forwarded, gatewayCalls,
                   usedClients>>
    /\ UNCHANGED <<envVars, gwVars, edgeVars, polVars, concVars>>

\* a route handler (sitemap, sitemap-news, api/categories) serves a forwarded
\* request: it imports lib/api and calls the gateway; no layout is involved
RouteHandlerServes ==
    /\ ~hasWindow
    /\ forwarded > gatewayCalls
    /\ graphqlMod = "loaded"
    /\ gatewayCalls' = gatewayCalls + 1
    /\ usedClients' = usedClients \cup {graphqlClient}
    /\ UNCHANGED <<nodeEnv, hasWindow, layoutMod, graphqlMod, graphqlClient,
                   validateCalls, forwarded, clientInits>>
    /\ UNCHANGED <<envVars, gwVars, edgeVars, polVars, concVars>>

\* a page is rendered for a forwarded request: layout and page modules evaluated
PageRenders ==
    /\ ~hasWindow
    /\ forwarded > gatewayCalls
    /\ layoutMod = "loaded"
    /\ graphqlMod = "loaded"
    /\ gatewayCalls' = gatewayCalls + 1
    /\ usedClients' = usedClients \cup {graphqlClient}
    /\ UNCHANGED <<nodeEnv, hasWindow, layoutMod, graphqlMod, graphqlClient,
                   validateCalls, forwarded, clientInits>>
    /\ UNCHANGED <<envVars, gwVars, edgeVars, polVars, concVars>>

EndpointValues ==
    {None, Some(<<>>), Some(sBlank), Some(sNotUrl), Some(sHttps), Some(sHttp),
     Some(sLocalhost), Some(sLoopback4), Some(sLoopback6)}

ProcessEnvSet ==
    {[BaseEnv EXCEPT !["WPGRAPHQL_ENDPOINT"] = e, !["SITE_NAME"] = n]
        : e \in EndpointValues, n \in {None, Some(sTitle)}}

\* the browser bundle sees none of the server's variables
BrowserEnv == [n \in EnvNames |-> None]

InitProcess ==
    /\ hasWindow \in BOOLEAN
    /\ env \in (IF hasWindow THEN {BrowserEnv} ELSE ProcessEnvSet)
    /\ nodeEnv \in {None, Some(sProduction), Some(sProd), Some(sDevelopment)}
    /\ layoutMod = "unloaded"
    /\ graphqlMod = "unloaded"
    /\ graphqlClient = None
    /\ validateCalls = 0
    /\ forwarded = 0
    /\ gatewayCalls = 0
    /\ clientInits = 0
    /\ usedClients = {}
    /\ EnvIdle /\ GwIdle /\ EdgeIdle /\ PolIdle /\ ConcIdle

NextProcess ==
    \/ MiddlewareForwards
    \/ LoadRootLayout
    \/ LoadGraphqlModule
    \/ RouteHandlerServes
    \/ PageRenders

SpecProcess == InitProcess /\ [][NextProcess]_vars

\* C5: validateOrThrow is invoked exactly once before any request-serving code
\* path runs (the edge middleware, a gateway call), and when validation fails no
\* request is served.
C5_ValidatedBeforeServing ==
    (forwarded > 0 \/ gatewayCalls > 0) =>
        /\ validateCalls = 1
        /\ layoutMod = "loaded"

\* hosts that denote the local machine
IsLoopbackHost(h) ==
    \/ h = sHostLocalhost
    \/ startsWith(h, <<"1","2","7",".">>)
    \/ h = <<"[",":",":","1","]">>

\* C9: on the server, client initialization fails and constructs no client when
\* WPGRAPHQL_ENDPOINT is absent or blank and, in production, when the endpoint's
\* scheme is not HTTPS or its host is a loopback host.
C9_EndpointGate ==
    (graphqlMod # "unloaded" /\ ~hasWindow) =>
        LET endpoint == env["WPGRAPHQL_ENDPOINT"]
            url == URL(endpoint[1])
            refused == graphqlMod = "threw" /\ graphqlClient = None
        IN  /\ Unset(endpoint) => refused
            /\ ( /\ ~Unset(endpoint)
                 /\ isProduction
                 /\ url.ok
                 /\ (url.protocol # sProtoHttps \/ IsLoopbackHost(url.hostname)) )
               => refused

----------------------------------------------------------------------------
(* Edge Request Interceptor: middleware.ts, with SECURITY_HEADERS of lib/security.ts *)

SECURITY_HEADERS ==
    << [key |-> <<"X","-","F","r","a","m","e","-","O","p","t","i","o","n","s">>,
        value |-> "DENY"],
       [key |-> <<"X","-","C","o","n","t","e","n","t","-","T","y","p","e","-","O","p","t","i","o","n","s">>,
        value |-> "nosniff"],
       [key |-> <<"X","-","X","S","S","-","P","r","o","t","e","c","t","i","o","n">>,
        value |-> "1; mode=block"],
       [key |-> <<"S","t","r","i","c","t","-","T","r","a","n","s","p","o","r","t","-","S","e","c","u","r","i","t","y">>,
        value |-> "max-age=31536000; includeSubDomains; preload"],
       [key |-> <<"R","e","f","e","r","r","e","r","-","P","o","l","i","c","y">>,
        value |-> "strict-origin-when-cross-origin"],
       [key |-> <<"P","e","r","m","i","s","s","i","o","n","s","-","P","o","l","i","c","y">>,
        value |-> "camera=(), microphone=(), geolocation=(self), payment=()"],
       [key |-> <<"S","e","r","v","e","r">>,
        value |-> "Apache"],
       [key |-> <<"C","a","c","h","e","-","C","o","n","t","r","o","l">>,
        value |-> "public, max-age=31536000, immutable"] >>

sCacheControl == <<"C","a","c","h","e","-","C","o","n","t","r","o","l">>

AssetExtensions ==
    { <<"j","s">>, <<"c","s","s">>, <<"p","n","g">>, <<"j","p","g">>, <<"j","p","e","g">>, <<"s","v","g">>, <<"g","i","f">>, <<"w","e","b","p">> }

Paths ==
    { <<"/">>,
      <<"/","a","b","o","u","t">>,
      <<"/","c","a","t","e","g","o","r","y","/","t","e","c","h">>,
      <<"/","a","p","i","/","p","o","s","t","s">>,
      <<"/","a","p","i","x">>,
      <<"/","a","p","p",".","j","s">>,
      <<"/","a","p","i","/","l","o","g","o",".","p","n","g">>,
      <<"/","m","a","i","n",".","c","s","s">>,
      <<"/","p","h","o","t","o",".","j","p","e","g">>,
      <<"/","v","i","e","w",".","j","s","x">>,
      <<"/","j","s">>,
      <<"/","A","P","P",".","J","S">>,
      <<"/","_","n","e","x","t","/","s","t","a","t","i","c","/","a",".","j","s">>,
      <<"/","_","n","e","x","t","/","i","m","a","g","e">>,
      <<"/","f","a","v","i","c","o","n",".","i","c","o">> }

Methods == {"GET", "HEAD", "POST"}

\* config.matcher: '/((?!_next/static|_next/image|favicon.ico).*)'
MatcherMatches(path) ==
    /\ path # <<>>
    /\ path[1] = "/"
    /\ ~startsWith(Tail(path), <<"_","n","e","x","t","/","s","t","a","t","i","c">>)
    /\ ~startsWith(Tail(path), <<"_","n","e","x","t","/","i","m","a","g","e">>)
    /\ ~( /\ Len(path) >= 12
          /\ SubSeq(path, 2, 8) = <<"f","a","v","i","c","o","n">>
          /\ SubSeq(path, 10, 12) = <<"i","c","o">> )

\* Headers.set(name, value): names are case-insensitive, one value per name
HeadersSet(headers, name, value) ==
    LET k == toLowerCase(name)
    IN  [h \in DOMAIN headers \cup {k} |-> IF h = k THEN value ELSE headers[h]]

\* Object.entries(SECURITY_HEADERS).forEach(([key, value]) => headers.set(key, value))
RECURSIVE SetSecurityHeaders(_, _)
SetSecurityHeaders(headers, i) ==
    IF i > Len(SECURITY_HEADERS) THEN headers
    ELSE SetSecurityHeaders(
             HeadersSet(headers, SECURITY_HEADERS[i].key, SECURITY_HEADERS[i].value),
             i + 1)

\* pathname.match(/\.(js|css|png|jpg|jpeg|svg|gif|webp)$/)
MatchesAssetSuffix(path) ==
    \E ext \in AssetExtensions : endsWith(path, <<".">> \o ext)

MiddlewareCacheControlApiFirst(path) ==
    IF startsWith(path, <<"/","a","p","i","/">>)
    THEN "public, max-age=300, s-maxage=300"
    ELSE IF MatchesAssetSuffix(path) THEN "public, max-age=31536000, immutable"
    ELSE "public, max-age=3600, s-maxage=86400"

\* the Cache-Control value of the if / else if / else of the middleware
MiddlewareCacheControl(path) ==
    IF MatchesAssetSuffix(path) THEN "public, max-age=31536000, immutable"
    ELSE IF startsWith(path, <<"/","a","p","i","/">>)
    THEN "public, max-age=300, s-maxage=300"
    ELSE "public, max-age=3600, s-maxage=86400"

\* an inbound request reaches the middleware: const response = NextResponse.next()
MiddlewareReceives ==
    /\ mpc = "idle"
    /\ \E path \in Paths, method \in Methods :
          /\ MatcherMatches(path)
          /\ request' = [path |-> path, method |-> method]
    /\ response' = <<>>
    /\ mpc' = "received"
    /\ UNCHANGED <<envVars, gwVars, procVars, polVars, concVars>>

\* the security headers are set
MiddlewareSetsSecurityHeaders ==
    /\ mpc = "received"
    /\ response' = SetSecurityHeaders(response, 1)
    /\ mpc' = "security-attached"
    /\ UNCHANGED <<request, envVars, gwVars, procVars, polVars, concVars>>

\* the Cache-Control header is set
MiddlewareSetsCacheControl ==
    /\ mpc = "security-attached"
    /\ response' = HeadersSet(response, sCacheControl,
                              MiddlewareCacheControl(request.path))
    /\ mpc' = "headers-attached"
    /\ UNCHANGED <<request, envVars, gwVars, procVars, polVars, concVars>>

\* MiddlewareReturns with the return reached before the Cache-Control branches
MiddlewareReturnsEarly ==
    /\ mpc \in {"security-attached", "headers-attached"}
    /\ mpc' = "forwarded"
    /\ UNCHANGED <<request, response, envVars, gwVars, procVars, polVars, concVars>>

\* return response
MiddlewareReturns ==
    /\ mpc = "headers-attached"
    /\ mpc' = "forwarded"
    /\ UNCHANGED <<request, response, envVars, gwVars, procVars, polVars, concVars>>

\* the request has left the middleware; the next one arrives
MiddlewareNextRequest ==
    /\ mpc = "forwarded"
    /\ mpc' = "idle"
    /\ request' = <<>>
    /\ response' = <<>>
    /\ UNCHANGED <<envVars, gwVars, procVars, polVars, concVars>>

InitEdge ==
    /\ env = BaseEnv
    /\ EnvIdle /\ GwIdle /\ ProcIdle /\ EdgeIdle /\ PolIdle /\ ConcIdle

NextEdge ==
    \/ MiddlewareReceives
    \/ MiddlewareSetsSecurityHeaders
    \/ MiddlewareSetsCacheControl
    \/ MiddlewareReturns
    \/ MiddlewareNextRequest

SpecEdge == InitEdge /\ [][NextEdge]_vars

\* the class of a request path and the Cache-Control value of each class
PathClass(path) ==
    IF MatchesAssetSuffix(path) THEN "asset"
    ELSE IF startsWith(path, <<"/","a","p","i","/">>) THEN "api"
    ELSE "page"

ClassCacheControl(class) ==
    CASE class = "asset" -> "public, max-age=31536000, immutable"
      [] class = "api"   -> "public, max-age=300, s-maxage=300"
      [] class = "page"  -> "public, max-age=3600, s-maxage=86400"

\* C10: every forwarded response carries every entry of SECURITY_HEADERS with its
\* configured value, and one Cache-Control value: that of the request path's class.
C10_HeadersOnEveryResponse ==
    mpc = "forwarded" =>
        /\ \A i \in 1..Len(SECURITY_HEADERS) :
               /\ toLowerCase(SECURITY_HEADERS[i].key) \in DOMAIN response
               /\ response[toLowerCase(SECURITY_HEADERS[i].key)] = SECURITY_HEADERS[i].value
        /\ toLowerCase(sCacheControl) \in DOMAIN response
        /\ response[toLowerCase(sCacheControl)] =
               ClassCacheControl(PathClass(request.path))

\* C11: the interceptor puts every request path in exactly one class and attaches
\* that class's Cache-Control: asset (one year, immutable) exactly for a path
\* ending in one of the eight asset suffixes, api (max-age=300, s-maxage=300)
\* exactly for a path that has no such suffix and starts with /api/, page
\* (max-age=3600, s-maxage=86400) exactly for the rest; the suffix rule wins
\* over the prefix rule.
C11_ClassifiedOnce ==
    mpc = "forwarded" =>
        LET path    == request.path
            cc      == response[toLowerCase(sCacheControl)]
            isAsset == \E ext \in AssetExtensions :
                          /\ Len(path) > Len(ext)
                          /\ SubSeq(path, Len(path) - Len(ext), Len(path)) = <<".">> \o ext
            isApi   == Len(path) >= 5 /\ SubSeq(path, 1, 5) = <<"/","a","p","i","/">>
        IN  /\ cc \in { "public, max-age=31536000, immutable",
                        "public, max-age=300, s-maxage=300",
                        "public, max-age=3600, s-maxage=86400" }
            /\ (cc = "public, max-age=31536000, immutable") <=> isAsset
            /\ (cc = "public, max-age=300, s-maxage=300") <=> (~isAsset /\ isApi)
            /\ (cc = "public, max-age=3600, s-maxage=86400") <=> (~isAsset /\ ~isApi)

\* an asset under /api/ has been forwarded with the asset value
C11_Witness ==
    /\ mpc = "forwarded"
    /\ request.path = <<"/","a","p","i","/","l","o","g","o",".","p","n","g">>
    /\ response[toLowerCase(sCacheControl)] = "public, max-age=31536000, immutable"

----------------------------------------------------------------------------
(* Cache Policy Engine: lib/cacheHeaders.ts *)

\* Array.prototype.join
RECURSIVE join(_, _)
join(parts, sep) ==
    IF parts = <<>> THEN <<>>
    ELSE IF Len(parts) = 1 THEN parts[1]
    ELSE parts[1] \o sep \o join(Tail(parts), sep)

\* String.prototype.includes
includes(s, sub) ==
    \E i \in 1..(Len(s) - Len(sub) + 1) : SubSeq(s, i, i + Len(sub) - 1) = sub

\* a CacheConfig; staleIfError is optional
CacheConfig(maxAge, sMaxAge, staleWhileRevalidate, staleIfError) ==
    [maxAge |-> maxAge, sMaxAge |-> sMaxAge,
     staleWhileRevalidate |-> staleWhileRevalidate, staleIfError |-> staleIfError]

CACHE_CONFIGS ==
    [html      |-> CacheConfig(3600, 86400, 604800, Some(2592000)),
     assets    |-> CacheConfig(31536000, 31536000, 31536000, None),
     images    |-> CacheConfig(2592000, 2592000, 2592000, None),
     api       |-> CacheConfig(300, 300, 600, None),
     analytics |-> CacheConfig(0, 0, 0, None)]

\* formatCacheControl: `if (config.staleIfError)` is a truthiness test, so
\* undefined and 0 both skip the push
formatCacheControl(config) ==
    LET parts == << <<"p","u","b","l","i","c">>,
                    <<"m","a","x","-","a","g","e","=">> \o NatToString(config.maxAge),
                    <<"s","-","m","a","x","a","g","e","=">> \o NatToString(config.sMaxAge),
                    <<"s","t","a","l","e","-","w","h","i","l","e","-","r","e","v","a","l","i","d","a","t","e","=">> \o NatToString(config.staleWhileRevalidate) >>
        pushed == IF config.staleIfError # None /\ config.staleIfError[1] # 0
                  THEN parts \o << <<"s","t","a","l","e","-","i","f","-","e","r","r","o","r","=">> \o NatToString(config.staleIfError[1]) >>
                  ELSE parts
    IN  join(pushed, <<",", " ">>)

\* the text of a sequence of characters
RECURSIVE Str(_)
Str(s) == IF s = <<>> THEN "" ELSE s[1] \o Str(Tail(s))

\* the directive of the fixed table for each resource class
ClassDirective(class) ==
    CASE class = "page"  -> CACHE_CONFIGS.html
      [] class = "asset" -> CACHE_CONFIGS.assets
      [] class = "api"   -> CACHE_CONFIGS.api

\* C12: the Cache-Control value the interceptor attaches to a forwarded response
\* is formatCacheControl applied to the directive of the request path's class.
C12_InterceptorUsesEngine ==
    mpc = "forwarded" =>
        response[toLowerCase(sCacheControl)] =
            Str(formatCacheControl(ClassDirective(PathClass(request.path))))

\* the if / else if chain of generateCacheTags: the tags of the first branch
\* whose test holds
contentTypeTags(pathOrContext) ==
    IF includes(pathOrContext, <<"/","a","p","i","/">>) THEN <<"api">>
    ELSE IF includes(pathOrContext, <<"/","c","a","t","e","g","o","r","y","/">>) THEN <<"category", "posts">>
    ELSE IF includes(pathOrContext, <<"/","a","u","t","h","o","r","/">>) THEN <<"author", "posts">>
    ELSE IF includes(pathOrContext, <<"/","t","a","g","/">>) THEN <<"tag", "posts">>
    ELSE IF includes(pathOrContext, <<"/","s","e","a","r","c","h">>) THEN <<"search", "posts">>
    ELSE IF pathOrContext = <<"/">> \/ includes(pathOrContext, <<"/","p","a","g","e","/">>)
         THEN <<"homepage", "posts">>
    ELSE IF includes(pathOrContext, <<".">>) THEN <<"assets">>
    ELSE <<>>

generateCacheTagsGeneralTagFirst(pathOrContext) ==
    <<"all-content">> \o contentTypeTags(pathOrContext)

\* generateCacheTags: the chain, then tags.push('all-content')
generateCacheTags(pathOrContext) ==
    contentTypeTags(pathOrContext) \o <<"all-content">>

\* paths and contexts handed to generateCacheTags: up to MaxSegments pieces
MaxSegments == 2

TagSegments ==
    { <<"/","a","p","i","/">>, <<"/","c","a","t","e","g","o","r","y","/">>, <<"/","a","u","t","h","o","r","/">>, <<"/","t","a","g","/">>, <<"/","s","e","a","r","c","h">>, <<"/","p","a","g","e","/">>,
      <<"/">>, <<".">>, <<"x">>, <<"t","e","c","h">> }

RECURSIVE TagInputsOf(_)
TagInputsOf(n) ==
    IF n = 0 THEN { <<>> }
    ELSE LET shorter == TagInputsOf(n - 1)
         IN  shorter \cup { p \o s : p \in shorter, s \in TagSegments }

TagInputs == TagInputsOf(MaxSegments)

----------------------------------------------------------------------------
(* Security Policy Engine: the pure functions of lib/security.ts *)

StringValue(s) == [t |-> "string", v |-> s]
\* the two boolean values
BooleanValue(b) == [t |-> IF b THEN "true" ELSE "false", v |-> <<>>]
NumberValue(n) == [t |-> "number", v |-> NatToString(n)]
Thrown(message) == [t |-> "exception", v |-> message]

\* String.prototype.replace(/c/g, entity) for a one-character pattern
RECURSIVE replaceAll(_, _, _)
replaceAll(s, c, entity) ==
    IF s = <<>> THEN <<>>
    ELSE (IF s[1] = c THEN entity ELSE <<s[1]>>) \o replaceAll(Tail(s), c, entity)

sAmp  == <<"&","a","m","p",";">>
sLt   == <<"&","l","t",";">>
sGt   == <<"&","g","t",";">>
sQuot == <<"&","q","u","o","t",";">>
sApos == <<"&","#","x","2","7",";">>
sSlash == <<"&","#","x","2","F",";">>

sanitizeInputAmpersandLast(input) ==
    IF input.t # "string" THEN <<>>
    ELSE replaceAll(
           replaceAll(
             replaceAll(
               replaceAll(
                 replaceAll(
                   replaceAll(input.v, "<", sLt),
                   ">", sGt),
                 "\"", sQuot),
               "'", sApos),
             "/", sSlash),
           "&", sAmp)

\* sanitizeInput: '' for a non-string, else the six global replacements in
\* the order of the source
sanitizeInput(input) ==
    IF input.t # "string" THEN <<>>
    ELSE replaceAll(
           replaceAll(
             replaceAll(
               replaceAll(
                 replaceAll(
                   replaceAll(input.v, "&", sAmp),
                   "<", sLt),
                 ">", sGt),
               "\"", sQuot),
             "'", sApos),
           "/", sSlash)

\* texts handed to sanitizeInput: up to MaxInputLen characters
MaxInputLen == 3

SanitizeAlphabet == {"&", "<", ">", "\"", "'", "/", ";", "a"}

RECURSIVE StringsOver(_, _)
StringsOver(alphabet, n) ==
    IF n = 0 THEN { <<>> }
    ELSE LET shorter == StringsOver(alphabet, n - 1)
         IN  shorter \cup { s \o <<c>> : s \in shorter, c \in alphabet }

\* longer texts: the five special characters together, text that already
\* holds entities, markup
SanitizeNotable ==
    { <<"&","<",">","\"","'">>,
      <<"&","a","m","p",";","&","l","t",";">>,
      <<"<","a"," ","h","r","e","f","=","\"","/","x","?","a","=","1","&","b","=","2","\"",">">>,
      <<"i","t","'","s"," ","&","#","x","2","7",";">> }

SanitizeInputs ==
    { StringValue(s) : s \in StringsOver(SanitizeAlphabet, MaxInputLen) \cup SanitizeNotable }
    \cup { Undefined, Null, NumberValue(7), Arr(<<>>), Obj(<<>>) }

\* Number.prototype.toString(16) of a byte, and padStart(2, '0')
HexSeq == <<"0","1","2","3","4","5","6","7","8","9","a","b","c","d","e","f">>

toString16(b) ==
    IF b < 16 THEN <<HexSeq[b + 1]>>
    ELSE <<HexSeq[(b \div 16) + 1], HexSeq[(b % 16) + 1]>>

padStart2(s) == IF Len(s) < 2 THEN <<"0">> \o s ELSE s

RECURSIVE HexOfBytes(_, _)
HexOfBytes(array, pad) ==
    IF array = <<>> THEN <<>>
    ELSE (IF pad THEN padStart2(toString16(array[1])) ELSE toString16(array[1]))
         \o HexOfBytes(Tail(array), pad)

sWebCryptoNotAvailable == <<"W","e","b"," ","C","r","y","p","t","o"," ","A","P","I"," ","n","o","t"," ","a","v","a","i","l","a","b","l","e">>

generateNonceNoPad(crypto, length, random) ==
    IF crypto # "available"
    THEN Thrown(sWebCryptoNotAvailable)
    ELSE StringValue(HexOfBytes(random, FALSE))

\* generateNonce(length); crypto is the state of globalThis.crypto
\* ("undefined", "no-getRandomValues", "available") and random the bytes
\* getRandomValues writes into the array of `length` bytes
generateNonce(crypto, length, random) ==
    IF crypto # "available"
    THEN Thrown(sWebCryptoNotAvailable)
    ELSE StringValue(HexOfBytes(random, TRUE))

\* nonce lengths up to MaxNonceBytes; the byte values tried
MaxNonceBytes == 2

ByteValues == {0, 9, 10, 15, 16, 171, 255}

CryptoStates == {"undefined", "no-getRandomValues", "available"}

NonceInputs ==
    { [crypto |-> c, length |-> Len(r), random |-> r] :
          c \in CryptoStates, r \in StringsOver(ByteValues, MaxNonceBytes) }

\* new URL(value, 'http://localhost'): the WHATWG parser with the base of
\* isValidRedirectUrl, as far as the scheme and the host.  An input with a
\* scheme is parsed on its own, except that "http:" without a slash after it
\* is relative to the base; an input that starts with two slashes (or
\* backslashes) takes the base's scheme and its own host; any other input is
\* a path, query or fragment under the base.
sBaseProtocol == <<"h","t","t","p",":">>
sBaseHostname == <<"l","o","c","a","l","h","o","s","t">>

HasScheme(t) ==
    LET colon == IndexOfAny(t, {":"})
    IN  /\ colon > 1
        /\ t[1] \in Alpha
        /\ \A i \in 1..(colon - 1) : t[i] \in SchemeChars

URLWithBase(value) ==
    LET t      == trim(value)
        colon  == IndexOfAny(t, {":"})
        scheme == toLowerCase(SubSeq(t, 1, colon - 1))
        rest   == Tail_(t, colon)
        slashy(s) == s # <<>> /\ s[1] \in {"/", "\\"}
        underBase == [ok |-> TRUE, protocol |-> sBaseProtocol, hostname |-> sBaseHostname]
    IN  IF HasScheme(t)
        THEN IF scheme \o <<":">> = sBaseProtocol /\ ~slashy(rest)
             THEN underBase
             ELSE URL(t)
        ELSE IF Len(t) >= 2 /\ slashy(t) /\ slashy(Tail(t))
        THEN LET body == StripSlashes(t)
                 stop == IndexOfAny(body, {"/", "\\", "?", "#"})
                 authority == IF stop = 0 THEN body ELSE SubSeq(body, 1, stop - 1)
                 host == toLowerCase(HostOf(authority))
             IN  IF host = <<>> \/ \E i \in 1..Len(host) : host[i] \in HostForbidden
                 THEN [ok |-> FALSE, protocol |-> <<>>, hostname |-> <<>>]
                 ELSE [ok |-> TRUE, protocol |-> sBaseProtocol, hostname |-> host]
        ELSE underBase

sInvalidUrl == <<"T","y","p","e","E","r","r","o","r",":"," ","I","n","v","a","l","i","d"," ","U","R","L">>

\* allowedOrigins.some(...): the entries are parsed in order; the first that
\* fails to parse throws, the first that matches ends the search with true
RECURSIVE some(_, _)
some(parsed, allowedOrigins) ==
    IF allowedOrigins = <<>> THEN BooleanValue(FALSE)
    ELSE LET allowed == URL(allowedOrigins[1])
         IN  IF ~allowed.ok THEN Thrown(sInvalidUrl)
             ELSE IF parsed.protocol = allowed.protocol /\ parsed.hostname = allowed.hostname
             THEN BooleanValue(TRUE)
             ELSE some(parsed, Tail(allowedOrigins))

\* isValidRedirectUrl: the try block, and the catch that returns false
isValidRedirectUrl(url, allowedOrigins) ==
    LET parsed == URLWithBase(url)
        tried  == IF ~parsed.ok THEN Thrown(sInvalidUrl)
                  ELSE some(parsed, allowedOrigins)
    IN  IF tried.t = "exception" THEN BooleanValue(FALSE) ELSE tried

sRelativePath  == <<"/","r","e","l","a","t","i","v","e","/","p","a","t","h">>
sExampleOrigin == <<"h","t","t","p","s",":","/","/","e","x","a","m","p","l","e",".","c","o","m">>
sLocalOrigin   == <<"h","t","t","p",":","/","/","l","o","c","a","l","h","o","s","t">>
sNotAnOrigin   == <<"n","o","t"," ","a"," ","u","r","l">>

\* allow-lists of up to MaxOrigins entries
MaxOrigins == 2

OriginValues == { sExampleOrigin, sLocalOrigin, sNotAnOrigin }

AllowedOriginLists == StringsOver(OriginValues, MaxOrigins)

RedirectUrls ==
    { sRelativePath,
      <<>>,
      <<"h","t","t","p","s",":","/","/","e","x","a","m","p","l","e",".","c","o","m","/","x">>,
      <<"h","t","t","p","s",":","/","/","e","v","i","l",".","c","o","m","/","x">>,
      <<"/","/","e","v","i","l",".","c","o","m","/","x">>,
      <<"h","t","t","p",":","/","/","e","x","a","m","p","l","e",".","c","o","m","/","x">>,
      <<"h","t","t","p","s",":","/","/","e","x","a","m","p","l","e",".","c","o","m",":","8","4","4","3","/","x">>,
      <<"h","t","t","p","s",":","/","/">>,
      <<"j","a","v","a","s","c","r","i","p","t",":","a","l","e","r","t","(","1",")">>,
      <<"h","t","t","p","s",":","/","/","E","X","A","M","P","L","E",".","c","o","m","/","a">>,
      <<"h","t","t","p","s",":","/","/","e","x","a","m","p","l","e",".","c","o","m",".","e","v","i","l",".","c","o","m","/">> }

\* CSP_HEADERS, as Object.entries lists it: the directives in insertion order
CSP_HEADERS ==
    <<
       [directive |-> <<"s","c","r","i","p","t","-","s","r","c">>,
        sources |-> << <<"'","s","e","l","f","'">>,
                       <<"'","n","o","n","c","e","-","{","N","O","N","C","E","}","'">>,
                       <<"h","t","t","p","s",":","/","/","w","w","w",".","g","o","o","g","l","e","t","a","g","m","a","n","a","g","e","r",".","c","o","m">>,
                       <<"h","t","t","p","s",":","/","/","w","w","w",".","g","o","o","g","l","e","-","a","n","a","l","y","t","i","c","s",".","c","o","m">>,
                       <<"h","t","t","p","s",":","/","/","c","d","n",".","j","s","d","e","l","i","v","r",".","n","e","t">> >>],
       [directive |-> <<"s","t","y","l","e","-","s","r","c">>,
        sources |-> << <<"'","s","e","l","f","'">>,
                       <<"'","u","n","s","a","f","e","-","i","n","l","i","n","e","'">>,
                       <<"h","t","t","p","s",":","/","/","f","o","n","t","s",".","g","o","o","g","l","e","a","p","i","s",".","c","o","m">>,
                       <<"h","t","t","p","s",":","/","/","c","d","n",".","j","s","d","e","l","i","v","r",".","n","e","t">> >>],
       [directive |-> <<"f","o","n","t","-","s","r","c">>,
        sources |-> << <<"'","s","e","l","f","'">>,
                       <<"h","t","t","p","s",":","/","/","f","o","n","t","s",".","g","s","t","a","t","i","c",".","c","o","m">>,
                       <<"d","a","t","a",":">> >>],
       [directive |-> <<"i","m","g","-","s","r","c">>,
        sources |-> << <<"'","s","e","l","f","'">>,
                       <<"d","a","t","a",":">>,
                       <<"h","t","t","p","s",":">>,
                       <<"h","t","t","p","s",":","/","/","w","w","w",".","g","o","o","g","l","e","t","a","g","m","a","n","a","g","e","r",".","c","o","m">>,
                       <<"h","t","t","p","s",":","/","/","w","w","w",".","g","o","o","g","l","e","-","a","n","a","l","y","t","i","c","s",".","c","o","m">>,
                       <<"h","t","t","p","s",":","/","/","w","w","w",".","f","a","c","e","b","o","o","k",".","c","o","m">> >>],
       [directive |-> <<"c","o","n","n","e","c","t","-","s","r","c">>,
        sources |-> << <<"'","s","e","l","f","'">>,
                       <<"h","t","t","p","s",":","/","/","w","w","w",".","g","o","o","g","l","e","-","a","n","a","l","y","t","i","c","s",".","c","o","m">>,
                       <<"h","t","t","p","s",":","/","/","w","w","w",".","g","o","o","g","l","e","t","a","g","m","a","n","a","g","e","r",".","c","o","m">>,
                       <<"h","t","t","p","s",":","/","/","r","e","g","i","o","n","1",".","g","o","o","g","l","e","-","a","n","a","l","y","t","i","c","s",".","c","o","m">>,
                       <<"p","r","o","c","e","s","s",".","e","n","v",".","W","P","G","R","A","P","H","Q","L","_","E","N","D","P","O","I","N","T">> >>],
       [directive |-> <<"f","r","a","m","e","-","s","r","c">>,
        sources |-> << <<"'","n","o","n","e","'">> >>],
       [directive |-> <<"o","b","j","e","c","t","-","s","r","c">>,
        sources |-> << <<"'","n","o","n","e","'">> >>],
       [directive |-> <<"m","e","d","i","a","-","s","r","c">>,
        sources |-> << <<"'","s","e","l","f","'">> >>],
       [directive |-> <<"d","e","f","a","u","l","t","-","s","r","c">>,
        sources |-> << <<"'","s","e","l","f","'">> >>],
       [directive |-> <<"f","o","r","m","-","a","c","t","i","o","n">>,
        sources |-> << <<"'","s","e","l","f","'">> >>],
       [directive |-> <<"f","r","a","m","e","-","a","n","c","e","s","t","o","r","s">>,
        sources |-> << <<"'","n","o","n","e","'">> >>],
       [directive |-> <<"u","p","g","r","a","d","e","-","i","n","s","e","c","u","r","e","-","r","e","q","u","e","s","t","s">>,
        sources |-> <<  >>] >>

sNoncePlaceholder == <<"{","N","O","N","C","E","}">>
sProcessEnv == <<"p","r","o","c","e","s","s",".","e","n","v",".">>

\* String.prototype.replace(pattern, replacement) for a string pattern: the
\* first occurrence only (the replacement texts used here carry no '$')
replace(s, pattern, replacement) ==
    LET hits == {i \in 1..(Len(s) - Len(pattern) + 1) :
                    SubSeq(s, i, i + Len(pattern) - 1) = pattern}
    IN  IF hits = {} THEN s
        ELSE LET i == SetMin(hits)
             IN  SubSeq(s, 1, i - 1) \o replacement \o SubSeq(s, i + Len(pattern), Len(s))

\* the callback of sources.map: `src.includes('{NONCE}') && nonce` needs a
\* nonce that is neither undefined nor ''
mapSource(src, nonce) ==
    IF includes(src, sNoncePlaceholder) /\ Truthy(nonce)
    THEN replace(src, sNoncePlaceholder, nonce[1])
    ELSE IF startsWith(src, sProcessEnv) THEN src
    ELSE src

\* the callback of Object.entries(cspConfig).map
mapDirective(entry, nonce) ==
    LET mapped == [j \in 1..Len(entry.sources) |-> mapSource(entry.sources[j], nonce)]
    IN  trim(entry.directive \o <<" ">> \o join(mapped, <<" ">>))

buildCSPHeaderPlaceholderKept(cspConfig, nonce) ==
    join([i \in 1..Len(cspConfig) |-> mapDirective(cspConfig[i], None)], <<";", " ">>)

\* buildCSPHeader(cspConfig, nonce)
buildCSPHeader(cspConfig, nonce) ==
    join([i \in 1..Len(cspConfig) |-> mapDirective(cspConfig[i], nonce)], <<";", " ">>)

\* the configurations handed to buildCSPHeader: the default, a small policy
\* with a nonce source in two directives, and the empty policy
SmallCspConfig ==
    <<
       [directive |-> <<"s","c","r","i","p","t","-","s","r","c">>,
        sources |-> << <<"'","n","o","n","c","e","-","{","N","O","N","C","E","}","'">> >>],
       [directive |-> <<"s","t","y","l","e","-","s","r","c">>,
        sources |-> << <<"'","s","e","l","f","'">>,
                       <<"'","n","o","n","c","e","-","{","N","O","N","C","E","}","'">> >>],
       [directive |-> <<"u","p","g","r","a","d","e","-","i","n","s","e","c","u","r","e","-","r","e","q","u","e","s","t","s">>,
        sources |-> <<  >>] >>

CspConfigs == { CSP_HEADERS, SmallCspConfig, <<>> }

\* the nonces handed to buildCSPHeader: none, and what generateNonce returns
CspNonces ==
    {None} \cup { Some(generateNonce(n.crypto, n.length, n.random).v) :
                      n \in {x \in NonceInputs : x.crypto = "available"} }

----------------------------------------------------------------------------
(* calculateReadingTime of lib/api.ts *)

wordsPerMinute == 200

\* content.split(/\s+/).length: every maximal run of white space separates two
\* pieces, also at the start and at the end of the text
splitOnWhitespaceLength(content) ==
    Cardinality({i \in 1..Len(content) :
                    /\ content[i] \in Whitespace
                    /\ (i = 1 \/ content[i - 1] \notin Whitespace)}) + 1

\* Math.ceil(a / b) for integers a >= 0, b > 0
ceilDiv(a, b) == (a + b - 1) \div b

\* calculateReadingTime(content)
calculateReadingTime(content) ==
    IF ~Truthy(content) THEN 1
    ELSE ceilDiv(splitOnWhitespaceLength(content[1]), wordsPerMinute)

\* texts of up to MaxWords words: a unit (a word and the white space after it)
\* repeated, with or without white space before the first word and after the
\* last one
MaxWords == 400

WordCounts == {0, 1, 2, 199, 200, 201, MaxWords - 1, MaxWords}

TextUnits == { <<"w","o","r","d"," ">>, <<"a", " ", "\n">> }

RepeatedText(unit, words, lead, trail) ==
    LET gap   == Len(unit) - 1
        whole == [i \in 1..(words * Len(unit)) |-> unit[((i - 1) % Len(unit)) + 1]]
        body  == IF trail \/ words = 0 THEN whole
                 ELSE SubSeq(whole, 1, Len(whole) - gap)
    IN  (IF lead THEN <<" ">> ELSE <<>>) \o body

ReadingTimeInputs ==
    {None} \cup { Some(RepeatedText(u, n, lead, trail)) :
                      u \in TextUnits, n \in WordCounts,
                      lead \in BOOLEAN, trail \in BOOLEAN }

CallCalculateReadingTime ==
    /\ pfn = "none"
    /\ \E content \in ReadingTimeInputs :
          /\ pin' = [content |-> content]
          /\ pout' = NumberValue(calculateReadingTime(content))
    /\ pfn' = "calculateReadingTime"
    /\ UNCHANGED <<envVars, gwVars, procVars, edgeVars, concVars>>

----------------------------------------------------------------------------
(* Specification of the policy engines: each exported function is applied  *)
(* to arguments drawn from the sets above.  The functions keep no state,   *)
(* so every call starts from the initial state.                            *)

\* the directives handed to formatCacheControl: the presets, and directives
\* with and without a staleIfError field
CacheDirectives ==
    { CACHE_CONFIGS.html, CACHE_CONFIGS.assets, CACHE_CONFIGS.images,
      CACHE_CONFIGS.api, CACHE_CONFIGS.analytics }
    \cup { CacheConfig(a, b, c, d) :
              a \in {0, 300}, b \in {0, 300}, c \in {0, 600},
              d \in {None, Some(0), Some(2592000)} }

CallFormatCacheControl ==
    /\ pfn = "none"
    /\ \E config \in CacheDirectives :
          /\ pin' = [config |-> config]
          /\ pout' = StringValue(formatCacheControl(config))
    /\ pfn' = "formatCacheControl"
    /\ UNCHANGED <<envVars, gwVars, procVars, edgeVars, concVars>>

CallGenerateCacheTags ==
    /\ pfn = "none"
    /\ \E pathOrContext \in TagInputs :
          /\ pin' = [pathOrContext |-> pathOrContext]
          /\ pout' = Arr(generateCacheTags(pathOrContext))
    /\ pfn' = "generateCacheTags"
    /\ UNCHANGED <<envVars, gwVars, procVars, edgeVars, concVars>>

CallBuildCSPHeader ==
    /\ pfn = "none"
    /\ \E cspConfig \in CspConfigs, nonce \in CspNonces :
          /\ pin' = [cspConfig |-> cspConfig, nonce |-> nonce]
          /\ pout' = StringValue(buildCSPHeader(cspConfig, nonce))
    /\ pfn' = "buildCSPHeader"
    /\ UNCHANGED <<envVars, gwVars, procVars, edgeVars, concVars>>

CallGenerateNonce ==
    /\ pfn = "none"
    /\ \E n \in NonceInputs :
          /\ pin' = n
          /\ pout' = generateNonce(n.crypto, n.length, n.random)
    /\ pfn' = "generateNonce"
    /\ UNCHANGED <<envVars, gwVars, procVars, edgeVars, concVars>>

CallIsValidRedirectUrl ==
    /\ pfn = "none"
    /\ \E url \in RedirectUrls, allowedOrigins \in AllowedOriginLists :
          /\ pin' = [url |-> url, allowedOrigins |-> allowedOrigins]
          /\ pout' = isValidRedirectUrl(url, allowedOrigins)
    /\ pfn' = "isValidRedirectUrl"
    /\ UNCHANGED <<envVars, gwVars, procVars, edgeVars, concVars>>

CallSanitizeInput ==
    /\ pfn = "none"
    /\ \E input \in SanitizeInputs :
          /\ pin' = [input |-> input]
          /\ pout' = StringValue(sanitizeInput(input))
    /\ pfn' = "sanitizeInput"
    /\ UNCHANGED <<envVars, gwVars, procVars, edgeVars, concVars>>

InitPolicy ==
    /\ env = BaseEnv
    /\ EnvIdle /\ GwIdle /\ ProcIdle /\ EdgeIdle /\ PolIdle /\ ConcIdle

NextPolicy ==
    \/ CallFormatCacheControl
    \/ CallGenerateCacheTags
    \/ CallGenerateNonce
    \/ CallIsValidRedirectUrl
    \/ CallSanitizeInput
    \/ CallBuildCSPHeader
    \/ CallCalculateReadingTime

SpecPolicy == InitPolicy /\ [][NextPolicy]_vars

----------------------------------------------------------------------------
(* Properties of the policy engines *)

\* C13: for every input, generateCacheTags returns a list whose last element
\* is 'all-content', in which 'all-content' occurs exactly once; when no branch
\* matches the list is exactly ['all-content'].
C13_AllContentLast ==
    pfn = "generateCacheTags" =>
        LET tags == pout.v
            p    == pin.pathOrContext
            noBranch ==
                /\ \A marker \in { <<"/","a","p","i","/">>, <<"/","c","a","t","e","g","o","r","y","/">>, <<"/","a","u","t","h","o","r","/">>, <<"/","t","a","g","/">>, <<"/","s","e","a","r","c","h">>, <<"/","p","a","g","e","/">>, <<".">> } :
                       ~includes(p, marker)
                /\ p # <<"/">>
        IN  /\ pout.t = "array"
            /\ Len(tags) >= 1
            /\ tags[Len(tags)] = "all-content"
            /\ Cardinality({i \in 1..Len(tags) : tags[i] = "all-content"}) = 1
            /\ noBranch => tags = <<"all-content">>

\* a call in which a branch matched, and the tag came last
C13_Witness ==
    /\ pfn = "generateCacheTags"
    /\ pin.pathOrContext = <<"/","s","e","a","r","c","h","x">>
    /\ pout.v = <<"search", "posts", "all-content">>

\* C14: generateCacheTags gives a rule's tags only to a path that begins with
\* the rule's prefix (/api/, /category/, /author/, /tag/, /search; root or
\* /page/ for homepage), and gives ['category', 'posts', 'all-content'] for
\* /category/tech.
C14_PrefixRules ==
    pfn = "generateCacheTags" =>
        LET tags == pout.v
            p    == pin.pathOrContext
            has(tag) == \E i \in 1..Len(tags) : tags[i] = tag
        IN  /\ has("api")      => startsWith(p, <<"/","a","p","i","/">>)
            /\ has("category") => startsWith(p, <<"/","c","a","t","e","g","o","r","y","/">>)
            /\ has("author")   => startsWith(p, <<"/","a","u","t","h","o","r","/">>)
            /\ has("tag")      => startsWith(p, <<"/","t","a","g","/">>)
            /\ has("search")   => startsWith(p, <<"/","s","e","a","r","c","h">>)
            /\ has("homepage") => (p = <<"/">> \/ startsWith(p, <<"/","p","a","g","e","/">>))
            /\ p = <<"/","c","a","t","e","g","o","r","y","/","t","e","c","h">> => tags = <<"category", "posts", "all-content">>

\* C15: formatCacheControl renders 'public, max-age=<maxAge>, s-maxage=<sMaxAge>,
\* stale-while-revalidate=<staleWhileRevalidate>' and appends
\* ', stale-if-error=<staleIfError>' exactly when the directive has a
\* staleIfError field.
C15_FormatRenders ==
    pfn = "formatCacheControl" =>
        LET c == pin.config
        IN  pout.v =
                <<"p","u","b","l","i","c",","," ","m","a","x","-","a","g","e","=">> \o NatToString(c.maxAge)
                \o <<","," ","s","-","m","a","x","a","g","e","=">> \o NatToString(c.sMaxAge)
                \o <<","," ","s","t","a","l","e","-","w","h","i","l","e","-","r","e","v","a","l","i","d","a","t","e","=">> \o NatToString(c.staleWhileRevalidate)
                \o (IF c.staleIfError # None
                    THEN <<","," ","s","t","a","l","e","-","i","f","-","e","r","r","o","r","=">> \o NatToString(c.staleIfError[1])
                    ELSE <<>>)

\* the pieces of s between the occurrences of sep
RECURSIVE SplitOn(_, _)
SplitOn(s, sep) ==
    LET hits == {i \in 1..(Len(s) - Len(sep) + 1) : SubSeq(s, i, i + Len(sep) - 1) = sep}
    IN  IF hits = {} THEN <<s>>
        ELSE LET i == SetMin(hits)
             IN  <<SubSeq(s, 1, i - 1)>> \o SplitOn(SubSeq(s, i + Len(sep), Len(s)), sep)

C17_NonceHexOrError ==
    pfn = "generateNonce" =>
        IF pin.crypto # "available"
        THEN pout.t = "exception"
        ELSE /\ pout.t = "string"
             /\ Len(pout.v) = 2 * pin.length
             /\ \A i \in 1..Len(pout.v) :
                    pout.v[i] \in Digit \cup {"a", "b", "c", "d", "e", "f"}

\* two bytes, the first below 16, have been rendered
C17_Witness ==
    /\ pfn = "generateNonce"
    /\ pin.crypto = "available"
    /\ pin.random = <<9, 171>>
    /\ pout = StringValue(<<"0","9","a","b">>)

\* C18: isValidRedirectUrl returns true only if the parsed url has the scheme
\* and the host of an entry of allowedOrigins, and returns false, without
\* throwing, whenever the url or an entry of allowedOrigins fails to parse.
C18_FailClosed ==
    pfn = "isValidRedirectUrl" =>
        LET parsed == URLWithBase(pin.url)
            origins == pin.allowedOrigins
            unparsable == \/ ~parsed.ok
                          \/ \E k \in 1..Len(origins) : ~URL(origins[k]).ok
        IN  /\ pout \in {BooleanValue(TRUE), BooleanValue(FALSE)}
            /\ pout = BooleanValue(TRUE) => \E k \in 1..Len(origins) :
                             /\ URL(origins[k]).ok
                             /\ URL(origins[k]).protocol = parsed.protocol
                             /\ URL(origins[k]).hostname = parsed.hostname
            /\ unparsable => pout = BooleanValue(FALSE)

\* C19: isValidRedirectUrl('/relative/path', ['https://example.com']) is true,
\* and an absolute URL of an origin that is not in allowedOrigins gives false.
C19_RelativeAccepted ==
    pfn = "isValidRedirectUrl" =>
        /\ (pin.url = sRelativePath /\ pin.allowedOrigins = <<sExampleOrigin>>)
               => pout = BooleanValue(TRUE)
        /\ (pin.url = <<"h","t","t","p","s",":","/","/","e","v","i","l",".","c","o","m","/","x">> /\ pin.allowedOrigins = <<sExampleOrigin>>)
               => pout = BooleanValue(FALSE)

\* the text that stands for one character of the input in a sanitized output
Escaped(c) ==
    CASE c = "&"  -> sAmp
      [] c = "<"  -> sLt
      [] c = ">"  -> sGt
      [] c = "\"" -> sQuot
      [] c = "'"  -> sApos
      [] c = "/"  -> sSlash
      [] OTHER    -> <<c>>

RECURSIVE EscapedAll(_)
EscapedAll(s) == IF s = <<>> THEN <<>> ELSE Escaped(s[1]) \o EscapedAll(Tail(s))

\* C20: the output of sanitizeInput holds no <, >, " or ', every & in it
\* begins an entity the function emits, every character of the input is
\* escaped once (the & of an emitted entity is not escaped again), and a
\* non-string input gives ''.
C20_SanitizedOutput ==
    pfn = "sanitizeInput" =>
        LET out == pout.v
            entities == {sAmp, sLt, sGt, sQuot, sApos, sSlash}
        IN  /\ pout.t = "string"
            /\ \A i \in 1..Len(out) : out[i] \notin {"<", ">", "\"", "'"}
            /\ \A i \in 1..Len(out) :
                   out[i] = "&" => \E e \in entities :
                                      /\ i + Len(e) - 1 <= Len(out)
                                      /\ SubSeq(out, i, i + Len(e) - 1) = e
            /\ pin.input.t = "string" => out = EscapedAll(pin.input.v)
            /\ pin.input.t # "string" => out = <<>>

\* the five special characters together have been sanitized
C20_Witness ==
    /\ pfn = "sanitizeInput"
    /\ pin.input = StringValue(<<"&","<",">","\"","'">>)
    /\ pout.v = <<"&","a","m","p",";","&","l","t",";","&","g","t",";","&","q","u","o","t",";","&","#","x","2","7",";">>

\* the words of a text: its maximal runs of characters that are not white space
WordCountOf(content) ==
    IF content = None THEN 0
    ELSE Cardinality({i \in 1..Len(content[1]) :
                         /\ content[1][i] \notin Whitespace
                         /\ (i = 1 \/ content[1][i - 1] \in Whitespace)})

\* C21: calculateReadingTime(text) is ceil(wordCount / 200), at least 1, where
\* wordCount is the number of words of the text: 1 for an absent text, 2 for
\* 'word ' repeated 400 times.
C21_ReadingTime ==
    pfn = "calculateReadingTime" =>
        LET minutes == ceilDiv(WordCountOf(pin.content), 200)
        IN  pout = NumberValue(IF minutes < 1 THEN 1 ELSE minutes)

\* C22: PUBLIC_GA_DEBUG, when present and non-empty, passes validation exactly
\* when its value is 'true' or 'false'; every other value ('TRUE' included) has
\* an entry in errors and makes isValid FALSE.
C22_DebugFlagStrict ==
    LET value == env["PUBLIC_GA_DEBUG"]
    IN  (vop \in {"validateEnvVars", "js.validateEnvVars"} /\ ~AbsentOrEmpty(value)) =>
            IF value[1] \in {sTrue, sFalse}
            THEN "PUBLIC_GA_DEBUG" \notin ErrorVariables(vres.result)
            ELSE /\ "PUBLIC_GA_DEBUG" \in ErrorVariables(vres.result)
                 /\ ~vres.result.isValid

\* C27: the JavaScript validateEnvVars returns, for every environment, the same
\* isValid, the same missingVariables and the same set of variables in errors
\* as the TypeScript validateEnvVars.
C27_ScriptMatchesModule ==
    vop = "js.validateEnvVars" =>
        LET ts == validateEnvVars(env)
            js == vres.result
        IN  /\ js.isValid = ts.isValid
            /\ js.missingVariables = ts.missingVariables
            /\ ErrorVariables(js) = ErrorVariables(ts)

\* C29: after a successful upstream response, whatever its top-level field holds
\* (absent and null included), getPosts returns a Page envelope with nodes and
\* pageInfo, the list operations return an array, and the single-entity lookups
\* return an entity or null, never undefined.
C29_TypedBoundary ==
    (pc = "done" /\ respLog[Len(respLog)].ok) =>
        CASE op = "getPosts"  -> /\ result.t = "object"
                                 /\ {"nodes", "pageInfo"} \subseteq DOMAIN result.v
          [] op \in EntityOps -> result.t \in {"object", "null"}
          [] OTHER            -> result.t = "array"

\* C30: a cursor walk is all-or-nothing: when the request for a page k >= 2 fails
\* after earlier pages were fetched, getAllPostsSlugs and getAllPostsWithDates
\* return [] and nothing of what was accumulated.
C30_WalkAllOrNothing ==
    ( /\ op \in WalkOps
      /\ pc = "done"
      /\ Len(respLog) >= 2
      /\ ~respLog[Len(respLog)].ok ) => result = Arr(<<>>)

C30_Witness ==
    /\ op = "getAllPostsSlugs"
    /\ pc = "done"
    /\ Len(respLog) = 2
    /\ IsPage(respLog[1])
    /\ ~respLog[2].ok
    /\ Len(acc) = MaxPageLen
    /\ result = Arr(<<>>)

\* C24: the requests of a cursor walk are strictly sequential: the first carries
\* after = null; request k+1 is issued only after response k was received and
\* carries that response's endCursor; no request follows a response with
\* hasNextPage = FALSE.
C24_WalkSequential ==
    (op \in WalkOps) =>
        /\ reqLog[1].after = None
        /\ Len(reqLog) = Len(respLog) + (IF pc = "awaiting" THEN 1 ELSE 0)
        /\ \A k \in 1..(Len(reqLog) - 1) :
               /\ IsPage(respLog[k])
               /\ respLog[k].field.v.pageInfo.hasNextPage
               /\ reqLog[k + 1].after = respLog[k].field.v.pageInfo.endCursor

C24_Witness ==
    /\ op = "getAllPostsWithDates"
    /\ pc = "done"
    /\ Len(reqLog) = 3
    /\ reqLog[2].after # None
    /\ reqLog[3].after # reqLog[2].after
    /\ IsPage(respLog[3])
    /\ ~respLog[3].field.v.pageInfo.hasNextPage

\* the text decodes to '<type>:<number>': a ':' followed by digits only
DecodesToTypedNumber(id) ==
    LET part == SplitColonSecond(BufferFromBase64ToString(id))
    IN  /\ part # None
        /\ part[1] # <<>>
        /\ \A i \in 1..Len(part[1]) : part[1][i] \in Digit

\* C28: getRelatedPosts never crashes on an identifier that cannot be decoded:
\* for a categoryId or excludeId that does not decode to '<type>:<number>' the
\* raw identifier string is used in its place, the exclusion filter is still
\* applied, and no exception reaches the caller.
C28_DecodeFallsBackToRaw ==
    (op = "getRelatedPosts") =>
        /\ ~DecodesToTypedNumber(args.categoryId)
               => reqLog[1].categoryId = parseInt(args.categoryId)
        /\ ~DecodesToTypedNumber(args.excludeId)
               => reqLog[1].excludeId = parseInt(args.excludeId)
        /\ result.t # "exception"
        /\ (pc = "done" /\ result.t = "array") =>
               \A i \in 1..Len(result.v) : result.v[i].id # args.excludeId

\* the state of the request in the interceptor's state machine: it stays
\* received until the security headers and the Cache-Control value are both set
RequestState(p) == IF p = "security-attached" THEN "received" ELSE p

\* every security header is present and Cache-Control is that of the path's class
HeadersAttached(headers, path) ==
    /\ \A i \in 1..Len(SECURITY_HEADERS) :
           toLowerCase(SECURITY_HEADERS[i].key) \in DOMAIN headers
    /\ toLowerCase(sCacheControl) \in DOMAIN headers
    /\ headers[toLowerCase(sCacheControl)] = ClassCacheControl(PathClass(path))

\* C25: a request handled by the interceptor moves through received,
\* headers-attached and forwarded in that order, no state skipped or revisited;
\* it is never forwarded before the security headers and the Cache-Control
\* value are attached; and no step between received and forwarded performs a
\* Content Gateway call.
C25_InterceptorOrder ==
    [][ /\ <<RequestState(mpc), RequestState(mpc')>> \in
               { <<"idle", "received">>, <<"received", "received">>,
                 <<"received", "headers-attached">>,
                 <<"headers-attached", "forwarded">>, <<"forwarded", "idle">> }
        /\ mpc' \in {"headers-attached", "forwarded"}
               => HeadersAttached(response', request'.path)
        /\ (mpc # "idle" /\ mpc' # "idle") => UNCHANGED <<gwVars, gatewayCalls>>
      ]_vars

C25_Witness ==
    /\ mpc = "forwarded"
    /\ request.method = "POST"
    /\ request.path = <<"/","a","p","i","/","p","o","s","t","s">>
    /\ HeadersAttached(response, request.path)
    /\ pc = "idle"
    /\ gatewayCalls = 0

\* C26: the endpoint check and the construction of the GraphQL client happen at
\* most once per process and before the first gateway operation; after a
\* successful construction every gateway operation uses that one client, which
\* is never constructed again or reconfigured; after a failed construction no
\* client exists, none is constructed later and no gateway operation runs.
C26_ClientInitializedOnce ==
    /\ clientInits <= 1
    /\ clientInits = 0 <=> graphqlMod = "unloaded"
    /\ gatewayCalls > 0 => (clientInits = 1 /\ graphqlMod = "loaded")
    /\ graphqlMod = "loaded" => graphqlClient # None
    /\ usedClients \subseteq {graphqlClient}
    /\ graphqlMod = "threw" => (graphqlClient = None /\ gatewayCalls = 0)

C26_Witness ==
    /\ clientInits = 1
    /\ graphqlMod = "loaded"
    /\ gatewayCalls = MaxHandled
    /\ usedClients = {graphqlClient}
    /\ graphqlClient # None

----------------------------------------------------------------------------
(* Concurrent gateway calls: several operations of lib/api.ts in flight at  *)
(* once (sitemap.ts starts getAllPostsWithDates and getAllCategoriesSlugs   *)
(* together with Promise.all), each suspended at its await while the others *)
(* run, all sending their requests through the one exported client.        *)

ConcOps == {"getAllPostsSlugs", "getAllPostsWithDates", "getAllCategoriesSlugs"}

\* calls that may be in flight at once
MaxCalls == 2
CallIds == 1..MaxCalls

\* the document an operation sends: both walks send GET_ALL_POSTS_SLUGS_QUERY
QueryOf(o) ==
    IF o \in WalkOps THEN "GET_ALL_POSTS_SLUGS_QUERY"
    ELSE "GET_ALL_CATEGORIES_SLUGS_QUERY"

\* the cursors of the shared upstream
ConcCursors == {None, Some(Cursor(1))}

ConcRequests ==
    {[query |-> "GET_ALL_POSTS_SLUGS_QUERY", after |-> c] : c \in ConcCursors}
    \cup {[query |-> "GET_ALL_CATEGORIES_SLUGS_QUERY", after |-> None]}

Rejected == [ok |-> FALSE, field |-> Undefined]
Resolved(field) == [ok |-> TRUE, field |-> field]

\* what the upstream may answer to a request: a rejection, a payload without the
\* field, or the field
ConcResponses(r) ==
    {Rejected, Resolved(Undefined)}
    \cup (IF r.query = "GET_ALL_POSTS_SLUGS_QUERY"
          THEN {Resolved(Obj([nodes |-> <<WalkNode(r.after, 1)>>,
                              pageInfo |-> [hasNextPage |-> h, endCursor |-> e]]))
                   : h \in BOOLEAN, e \in ConcCursors}
          ELSE {Resolved(Obj([nodes |-> <<[slug |-> <<"n","e","w","s">>]>>]))})

\* the locals of a call that has not started
IdleCall ==
    [op |-> "idle", pc |-> "idle", acc |-> <<>>, hasNextPage |-> FALSE,
     after |-> None, requests |-> 0, overlapped |-> FALSE, result |-> Undefined]

\* walkAccumulator with one list shared by all calls
walkAccumulatorShared(cs, i) == cs[1].acc

\* the list a walk pushes to is a local of the call
walkAccumulator(cs, i) == cs[i].acc

\* the exported client, constructed before any operation is called
ConcClient == Some([endpoint |-> sHttps])

\* call i starts operation o and runs up to its first await
ConcCall(i, o) ==
    /\ calls[i].pc = "idle"
    /\ LET inFlight == {j \in CallIds : calls[j].pc = "awaiting"}
       IN  calls' = [j \in CallIds |->
                       IF j = i
                       THEN [IdleCall EXCEPT !.op = o, !.pc = "awaiting",
                                             !.hasNextPage = (o \in WalkOps),
                                             !.requests = 1,
                                             !.overlapped = (inFlight # {})]
                       ELSE IF j \in inFlight
                       THEN [calls[j] EXCEPT !.overlapped = TRUE]
                       ELSE calls[j]]
    /\ UNCHANGED <<cms, envVars, gwVars, procVars, edgeVars, polVars>>

\* the request call i awaits settles and the call runs up to its next await or
\* to its return
ConcSettles(i) ==
    /\ calls[i].pc = "awaiting"
    /\ LET c    == calls[i]
           resp == cms[[query |-> QueryOf(c.op), after |-> c.after]]
           s    == walkLoopBody(c.op, walkAccumulator(calls, i), resp.field)
       IN  IF ~resp.ok
           THEN calls' = [calls EXCEPT ![i].pc = "done",
                                       ![i].result = CatchValue(c.op)]
           ELSE IF c.op \notin WalkOps
           THEN calls' = [calls EXCEPT
                             ![i].pc = "done",
                             ![i].result = Completion(c.op,
                                               TryBody(c.op, NoArgs, resp.field))]
           ELSE IF s.threw
           THEN calls' = [calls EXCEPT ![i].pc = "done",
                                       ![i].result = CatchValue(c.op)]
           ELSE IF s.hasNextPage
           THEN /\ c.requests < MaxRequests
                /\ calls' = [calls EXCEPT ![i].acc = s.acc,
                                          ![i].hasNextPage = TRUE,
                                          ![i].after = s.after,
                                          ![i].requests = c.requests + 1]
           ELSE calls' = [calls EXCEPT ![i].acc = s.acc,
                                       ![i].hasNextPage = FALSE,
                                       ![i].after = s.after,
                                       ![i].pc = "done",
                                       ![i].result = Arr(s.acc)]
    /\ UNCHANGED <<cms, envVars, gwVars, procVars, edgeVars, polVars>>

\* the caller of call i has the result
ConcReturn(i) ==
    /\ calls[i].pc = "done"
    /\ calls' = [calls EXCEPT ![i] = IdleCall]
    /\ UNCHANGED <<cms, envVars, gwVars, procVars, edgeVars, polVars>>

InitConcurrent ==
    /\ env = BaseEnv
    /\ nodeEnv = None
    /\ hasWindow = FALSE
    /\ layoutMod = "unloaded"
    /\ graphqlMod = "loaded"
    /\ graphqlClient = ConcClient
    /\ validateCalls = 0
    /\ forwarded = 0
    /\ gatewayCalls = 0
    /\ clientInits = 1
    /\ usedClients = {}
    /\ calls = [i \in CallIds |-> IdleCall]
    /\ cms \in {f \in [ConcRequests -> UNION {ConcResponses(r) : r \in ConcRequests}] :
                   \A r \in ConcRequests : f[r] \in ConcResponses(r)}
    /\ EnvIdle /\ GwIdle /\ EdgeIdle /\ PolIdle

NextConcurrent ==
    \/ \E i \in CallIds : \E o \in ConcOps : ConcCall(i, o)
    \/ \E i \in CallIds : ConcSettles(i)
    \/ \E i \in CallIds : ConcReturn(i)

SpecConcurrent == InitConcurrent /\ [][NextConcurrent]_vars

\* operation o run alone against the upstream: what it returns, or Undefined
\* when it has not returned within MaxRequests requests
RECURSIVE AloneWalk(_, _, _, _)
AloneWalk(o, accum, aft, fuel) ==
    LET resp == cms[[query |-> QueryOf(o), after |-> aft]]
        s    == walkLoopBody(o, accum, resp.field)
    IN  IF fuel = 0 THEN Undefined
        ELSE IF ~resp.ok \/ s.threw THEN Arr(<<>>)
        ELSE IF s.hasNextPage THEN AloneWalk(o, s.acc, s.after, fuel - 1)
        ELSE Arr(s.acc)

Alone(o) ==
    IF o \in WalkOps THEN AloneWalk(o, <<>>, None, MaxRequests)
    ELSE LET resp == cms[[query |-> QueryOf(o), after |-> None]]
         IN  IF resp.ok /\ resp.field.t = "object"
             THEN Arr(Slugs(resp.field.v.nodes))
             ELSE Arr(<<>>)

\* C23: concurrent gateway calls need no coordination: in every interleaving of
\* the calls in flight, each operation returns what it returns when run alone
\* against the same upstream, and the shared client stays as constructed.
C23_NoInterference ==
    /\ \A i \in CallIds : calls[i].pc = "done" => calls[i].result = Alone(calls[i].op)
    /\ graphqlClient = ConcClient

\* two walks that were in flight together have both returned two pages' items
C23_Witness ==
    /\ calls[1].pc = "done" /\ calls[2].pc = "done"
    /\ calls[1].op = "getAllPostsWithDates" /\ calls[2].op = "getAllPostsSlugs"
    /\ calls[1].overlapped /\ calls[2].overlapped
    /\ Len(calls[1].result.v) = 2 /\ Len(calls[2].result.v) = 2

====
